---- MODULE Spec2Model ----
(***************************************************************************)
(* MyStay email service (src/server.js, final revision, lines 507-1473).   *)
(* Two POST handlers compose a message (validation, recipient resolution,  *)
(* rendering) and dispatch it through an SMTP transporter.                  *)
(*                                                                         *)
(* A JavaScript value is a record [t, s]: t is its type and s the string   *)
(* that String(v) / template interpolation produces for it.  JavaScript    *)
(* strings are TLA+ strings; characters are read with SubSeq.              *)
(*                                                                         *)
(* Each handler run is split at its awaits: one action per synchronous     *)
(* stretch of code between two awaits.                                     *)
(***************************************************************************)
EXTENDS Integers, Sequences, FiniteSets, TLC

\* ------------------------------------------------------------------------
\* JavaScript values
\* ------------------------------------------------------------------------
Undef == [t |-> "undefined", s |-> "undefined"]
Null == [t |-> "null", s |-> "null"]
Str(x) == [t |-> "string", s |-> x]
NumV(x) == [t |-> "number", s |-> x]
EmptyArr == [t |-> "array", s |-> ""]

\* String(v) and `${v}`
ToStr(v) == v.s

\* JavaScript truthiness (ToBoolean)
Truthy(v) ==
    CASE v.t \in {"undefined", "null"} -> FALSE
      [] v.t = "string" -> v.s # ""
      [] v.t = "number" -> v.s \notin {"0", "NaN"}
      [] v.t = "boolean" -> v.s = "true"
      [] OTHER -> TRUE

Nullish(v) == v.t \in {"undefined", "null"}

\* a ?? b
Coalesce(a, b) == IF Nullish(a) THEN b ELSE a

\* a || b
OrElse(a, b) == IF Truthy(a) THEN a ELSE b

\* ------------------------------------------------------------------------
\* String functions
\* ------------------------------------------------------------------------
CharAt(s, i) == SubSeq(s, i, i)

UpperAlphabet == "ABCDEFGHIJKLMNOPQRSTUVWXYZ"
LowerAlphabet == "abcdefghijklmnopqrstuvwxyz"

\* the lower-case letter of each upper-case letter
LowerOf ==
    [c \in { CharAt(UpperAlphabet, i) : i \in 1..Len(UpperAlphabet) } |->
        CharAt(LowerAlphabet, CHOOSE j \in 1..Len(UpperAlphabet) : CharAt(UpperAlphabet, j) = c)]

LowerChar(c) == IF c \in DOMAIN LowerOf THEN LowerOf[c] ELSE c

RECURSIVE toLowerCase(_)
toLowerCase(s) ==
    IF s = "" THEN ""
    ELSE LowerChar(CharAt(s, 1)) \o toLowerCase(SubSeq(s, 2, Len(s)))

\* s.includes(needle)
includes(s, needle) ==
    \E i \in 1..(Len(s) + 1) :
        /\ i + Len(needle) - 1 <= Len(s)
        /\ SubSeq(s, i, i + Len(needle) - 1) = needle

\* variant: the replacement of the single quote is missing
EscapeChar_noApostrophe(c) ==
    CASE c = "&" -> "&amp;"
      [] c = "<" -> "&lt;"
      [] c = ">" -> "&gt;"
      [] c = "\"" -> "&quot;"
      [] OTHER -> c

EscapeChar(c) ==
    CASE c = "&" -> "&amp;"
      [] c = "<" -> "&lt;"
      [] c = ">" -> "&gt;"
      [] c = "\"" -> "&quot;"
      [] c = "'" -> "&#039;"
      [] OTHER -> c

RECURSIVE EscapeString(_)
EscapeString(s) ==
    IF s = "" THEN ""
    ELSE EscapeChar(CharAt(s, 1)) \o EscapeString(SubSeq(s, 2, Len(s)))

\* escapeHtml(s): null/undefined give '', anything else is stringified and
\* has & < > " ' replaced (the & replacement runs first, so the entities
\* introduced by the later replacements are not escaped again).
escapeHtml(v) == IF Nullish(v) THEN "" ELSE EscapeString(ToStr(v))

IsSpace(c) == c \in {" ", "\t", "\n", "\r"}

RECURSIVE TrimStart(_)
TrimStart(s) ==
    IF s = "" THEN ""
    ELSE IF IsSpace(CharAt(s, 1)) THEN TrimStart(SubSeq(s, 2, Len(s))) ELSE s

RECURSIVE TrimEnd(_)
TrimEnd(s) ==
    IF s = "" THEN ""
    ELSE IF IsSpace(CharAt(s, Len(s))) THEN TrimEnd(SubSeq(s, 1, Len(s) - 1)) ELSE s

\* s.trim()
trim(s) == TrimEnd(TrimStart(s))

\* ------------------------------------------------------------------------
\* Template renderers.  A rendered document is a sequence of segments: a
\* "lit" segment is static template markup (abbreviated, glyphs dropped), any
\* other segment is the result of one ${...} interpolation, named by slot.
\* ------------------------------------------------------------------------
Lit(x) == [slot |-> "lit", s |-> x]
Val(slot, x) == [slot |-> slot, s |-> x]

\* variant: the title is compared as written, without toLowerCase()
IsRefund_caseSensitive(paymentTitle) ==
    /\ Truthy(paymentTitle)
    /\ \/ includes(ToStr(paymentTitle), "refund")
       \/ includes(ToStr(paymentTitle), "reversal")
       \/ includes(ToStr(paymentTitle), "reimbursement")

\* const isRefund = paymentTitle && (... .toLowerCase().includes(...) ...)
IsRefund(paymentTitle) ==
    /\ Truthy(paymentTitle)
    /\ \/ includes(toLowerCase(ToStr(paymentTitle)), "refund")
       \/ includes(toLowerCase(ToStr(paymentTitle)), "reversal")
       \/ includes(toLowerCase(ToStr(paymentTitle)), "reimbursement")

\* variant: the renderer stringifies the title and never throws
BuildHtmlThrows_never(a) == FALSE

\* paymentTitle.toLowerCase is not a function unless paymentTitle is a string
BuildHtmlThrows(a) == Truthy(a.paymentTitle) /\ a.paymentTitle.t # "string"

buildHtml(a, year) ==
    LET recipientName == IF a.recipientName = Undef THEN Str("") ELSE a.recipientName
        isRefund == IsRefund(a.paymentTitle)
        transactionLabel == IF isRefund THEN "Transaction Details" ELSE "Payment Details"
        amountLabel == IF isRefund THEN "Refund Amount" ELSE "Amount Paid"
        bannerText == IF isRefund THEN "Refund Processed" ELSE "Transaction Successful"
    IN  << Lit("<img src=\"cid:checkmark-icon\"/>"),
           Lit("<img src=\"cid:mystay-icon\"/>"),
           Lit("<h2>"), Val("bannerText", bannerText), Lit("</h2>"),
           Lit("<h3>"), Val("paymentTitle", escapeHtml(a.paymentTitle)), Lit("</h3>"),
           Lit("Hi <strong>"),
           Val("recipientName", escapeHtml(OrElse(recipientName, Str("there")))),
           Lit("</strong>,"),
           Val("transactionLabel", transactionLabel),
           Val("amountLabel", amountLabel),
           Val("amount", escapeHtml(Str(ToStr(a.amount)))) >>
        \o (IF Truthy(a.mpesaReceipt)
            THEN << Lit("<tr><td style=\""),
                    Val("receiptBorder",
                        IF Truthy(a.bookingId) THEN "border-bottom: 1px solid #e0f2fe;" ELSE ""),
                    Lit("\">M-Pesa Receipt"),
                    Val("mpesaReceipt", escapeHtml(a.mpesaReceipt)) >>
            ELSE << >>)
        \o (IF Truthy(a.bookingId)
            THEN << Lit("Booking Reference"), Val("bookingId", escapeHtml(a.bookingId)) >>
            ELSE << >>)
        \o (IF Truthy(a.extraMessage)
            THEN << Lit("Important Note:"), Val("extraMessage", escapeHtml(a.extraMessage)) >>
            ELSE << >>)
        \o << Val("closing",
                  IF isRefund
                  THEN "Thank you for your understanding. We look forward to serving you again!"
                  ELSE "You're all set! Happy hosting."),
              Lit("This is an automated confirmation from MyStay App."),
              Lit("(c) "), Val("year", ToString(year)), Lit(" MyStay. All rights reserved.") >>

\* the five email types of the host family
validEmailTypes == << "submitted", "published", "rejected", "verified", "verification_rejected" >>

buildHostHtml(a, year) ==
    LET hostName == IF a.hostName = Undef THEN Str("") ELSE a.hostName
        emailType == IF a.emailType = Undef THEN Str("submitted") ELSE a.emailType
        rejectionReason == IF a.rejectionReason = Undef THEN Null ELSE a.rejectionReason
        verificationRejectionReason ==
            IF a.verificationRejectionReason = Undef THEN Null
            ELSE a.verificationRejectionReason
        isPublished == emailType = Str("published")
        isRejected == emailType = Str("rejected")
        isVerified == emailType = Str("verified")
        isVerificationRejected == emailType = Str("verification_rejected")
        bannerText ==
            IF isVerified THEN "Host Verified"
            ELSE IF isVerificationRejected THEN "Verification Not Approved"
            ELSE IF isPublished THEN "Listing Published"
            ELSE IF isRejected THEN "Listing Not Approved"
            ELSE "Listing Submitted"
        listing == Val("listingName", escapeHtml(a.listingName))
    IN  (IF isRejected \/ isVerificationRejected THEN << Lit("<span>x</span>") >>
         ELSE IF isVerified THEN << Lit("<span>ok</span>") >>
         ELSE << Lit("<img src=\"cid:checkmark-icon\"/>") >>)
        \o << Lit("<img src=\"cid:mystay-icon\"/>"),
              Lit("<h2>"), Val("bannerText", bannerText), Lit("</h2>"),
              Lit("Hi <strong>"),
              Val("hostName", escapeHtml(OrElse(hostName, Str("there")))),
              Lit("</strong>,") >>
        \o (IF isVerified
            THEN << Lit("Congratulations! Your host account has been successfully verified.") >>
            ELSE IF isVerificationRejected
            THEN << Lit("We're sorry to inform you that your host verification request was not approved after review.") >>
            ELSE IF isPublished
            THEN << Lit("We are pleased to inform you that your submission '"), listing,
                    Lit("' was just published on our app. Thank you.") >>
            ELSE IF isRejected
            THEN << Lit("We're sorry to inform you that your listing '"), listing,
                    Lit("' was not approved after review.") >>
            ELSE << Lit("Thank you for submitting your listing '"), listing, Lit("'.") >>)
        \o (IF isVerified \/ isVerificationRejected
            THEN << Val("cardTitle",
                        IF isVerified THEN "Verification Status" ELSE "Verification Information") >>
                 \o (IF isVerified THEN << Lit("Account Status: Verified") >> ELSE << >>)
                 \o (IF isVerificationRejected /\ Truthy(verificationRejectionReason)
                     THEN << Lit("Rejection Reason"),
                             Val("verificationRejectionReason",
                                 escapeHtml(verificationRejectionReason)) >>
                     ELSE << >>)
            ELSE << Lit("Listing Information"), Lit("Listing Name"), listing >>
                 \o (IF isRejected /\ Truthy(rejectionReason)
                     THEN << Lit("Rejection Reason"),
                             Val("rejectionReason", escapeHtml(rejectionReason)) >>
                     ELSE << >>))
        \o (IF isRejected \/ isVerificationRejected
            THEN << Lit("Next Steps:"),
                    Val("nextSteps",
                        IF isVerificationRejected
                        THEN "If you'd like more information or wish to resubmit your verification request with corrections, please contact our support team."
                        ELSE "If you'd like more information or wish to resubmit your listing with corrections, please contact our support team.") >>
            ELSE << >>)
        \o << Val("closing",
                  IF isVerified THEN "Welcome to MyStay! You can now start creating your first listing and begin hosting guests."
                  ELSE IF isVerificationRejected THEN "We appreciate your understanding. Please contact support if you have any questions."
                  ELSE IF isPublished THEN "Congratulations! Your listing is now live and visible to guests."
                  ELSE IF isRejected THEN "We appreciate your understanding. Please contact support if you have any questions."
                  ELSE "Your listing is under review. We'll notify you once it's published."),
              Lit("This is an automated notification from MyStay App."),
              Lit("(c) "), Val("year", ToString(year)), Lit(" MyStay. All rights reserved.") >>

\* ------------------------------------------------------------------------
\* Bounds and input domains
\* ------------------------------------------------------------------------
\* number of requests the server receives in one run
MaxRequests == 2

\* request slots (handler activations that can be live) of the serial
\* specification
SerialSlots == {1}

\* years new Date().getFullYear() may return while a request is rendered
Years == {2025, 2026}

TitleVals == {Undef, Str(""), Str("Rent Payment"), Str("Booking Refund Issued"), NumV("5")}
AmountVals == {Undef, Null, Str("KES 5000"), NumV("0")}
EmailVals == {Undef, Str(""), Str("a@b.com")}
IdVals == {Undef, Str("u1"), EmptyArr}
NameVals == {Undef, Str(""), Str("Caller <C>")}
\* the optional display fields: every combination of receipt and booking id
\* (the receipt row's border depends on both), extra message absent and present
OptionalVals ==
    { [mpesa_receipt |-> Undef, booking_id |-> Undef, extra_message |-> Undef],
      [mpesa_receipt |-> Str("QX1&2"), booking_id |-> Undef, extra_message |-> Undef],
      [mpesa_receipt |-> Undef, booking_id |-> Str("B-7"), extra_message |-> Str("<b>hi</b>")],
      [mpesa_receipt |-> Str("QX1&2"), booking_id |-> Str("B-7"),
       extra_message |-> Str("<b>hi</b>")] }

TxBodies ==
    { [payment_title |-> t, amount |-> a, email |-> e, recipient_id |-> i,
       recipient_name |-> n, mpesa_receipt |-> o.mpesa_receipt,
       booking_id |-> o.booking_id, extra_message |-> o.extra_message] :
         t \in TitleVals, a \in AmountVals, e \in EmailVals, i \in IdVals,
         n \in NameVals, o \in OptionalVals }

EmailTypeVals ==
    {Undef, Str(""), Str("archived")} \cup {Str(validEmailTypes[i]) : i \in 1..Len(validEmailTypes)}
ListingVals == {Undef, Str("Sea 'View'")}
ReasonVals == {Undef, Str("Blurry \"photos\"")}
VReasonVals == {Undef, Str("ID expired")}
HostEmailVals == {Undef, Str(""), Str("h@x.com")}
HostIdVals == {Undef, Str("h1")}
HostNameVals == {Undef, Str(""), Str("Hostess")}

HostBodies ==
    [email_type : EmailTypeVals, listing_name : ListingVals,
     rejection_reason : ReasonVals, verification_rejection_reason : VReasonVals,
     host_email : HostEmailVals, host_id : HostIdVals, host_name : HostNameVals]

\* process.env as read at startup
EnvVals ==
    { [FROM_NAME |-> Undef, FROM_EMAIL |-> Undef, SMTP_USER |-> Str("smtp@mystay.app")],
      [FROM_NAME |-> Str("MyStay Mail"), FROM_EMAIL |-> Str("no-reply@mystay.app"),
       SMTP_USER |-> Str("smtp@mystay.app")] }

\* answers of the profile store
ProfileEmails == {Null, Str(""), Str("p@q.io")}
ProfileRoles == {Null, Str("guest"), Str("host"), Str("admin")}
NoProfile == [present |-> FALSE, email |-> Undef, role |-> Undef]
Profiles ==
    {NoProfile} \cup [present : {TRUE}, email : ProfileEmails, role : ProfileRoles]
\* kind: "data" (query completed), "error" (error value returned), "throw"
PrimaryAnswers ==
    [kind : {"data"}, profile : Profiles]
    \cup [kind : {"error", "throw"}, profile : {NoProfile}]

FullNames == {Null, Str("Gina O'Neil")}
NoGuest == [present |-> FALSE, full_name |-> Undef]
GuestAnswers ==
    [kind : {"data"}, code : {""}, guest : {NoGuest} \cup [present : {TRUE}, full_name : FullNames]]
    \cup [kind : {"error"}, code : {"PGRST116", "42501"}, guest : {NoGuest}]
    \cup [kind : {"throw"}, code : {""}, guest : {NoGuest}]

NameParts == {Null, Str(""), Str("Jane"), Str("Doe ")}
NoHost == [present |-> FALSE, first_name |-> Undef, last_name |-> Undef]
HostAnswers ==
    [kind : {"data"}, code : {""},
     host : {NoHost} \cup [present : {TRUE}, first_name : NameParts, last_name : NameParts]]
    \cup [kind : {"error"}, code : {"PGRST116", "42501"}, host : {NoHost}]
    \cup [kind : {"throw"}, code : {""}, host : {NoHost}]

\* outcomes of transporter.sendMail: info (with or without messageId) or an
\* error (with or without a message)
SendAnswers ==
    { [ok |-> TRUE, messageId |-> Str("<m1@smtp>"), errMessage |-> Undef, errString |-> ""],
      [ok |-> TRUE, messageId |-> Undef, errMessage |-> Undef, errString |-> ""],
      [ok |-> FALSE, messageId |-> Undef, errMessage |-> Str("ECONNREFUSED"),
       errString |-> "Error: ECONNREFUSED"],
      [ok |-> FALSE, messageId |-> Undef, errMessage |-> Undef, errString |-> "timeout"] }

\* ------------------------------------------------------------------------
\* State
\* ------------------------------------------------------------------------
VARIABLES
    env,    \* process.env values used by the handlers
    nreq,   \* requests received so far
    pc,     \* per slot: where the handler activation stands
    req,    \* per slot: [family, body] of the request being served
    h,      \* per slot: the handler's locals
    lk,     \* per slot: lookupRecipient's locals and return value
    trace,  \* per slot: calls and steps of this request, in order
    sent,   \* per slot: the mailOptions handed to transporter.sendMail
    res     \* per slot: the responses written to res

vars == << env, nreq, pc, req, h, lk, trace, sent, res >>

NoReq == [family |-> "none", body |-> << >>]
\* what the awaited sendMail settled with, before it has settled
NoAnswer == [ok |-> FALSE, messageId |-> Undef, errMessage |-> Undef, errString |-> ""]
\* finalRecipientName also stands for the host handler's finalHostName; info
\* is sendMail's answer (the value of `info`, or the `err` of the outer catch)
NoLocals ==
    [targetEmail |-> Undef, finalRecipientName |-> Undef, html |-> << >>,
     text |-> << >>, subject |-> Undef, mailOptions |-> << >>, info |-> NoAnswer]
\* host is the row read by the host_profiles query, a local of lookupRecipient
\* that does not outlive the call
NoLookup ==
    [recipientId |-> Undef, email |-> Undef, role |-> Undef, host |-> NoHost,
     result |-> [email |-> Undef, name |-> Undef]]

InitSlots(S) ==
    /\ env \in EnvVals
    /\ nreq = 0
    /\ pc = [r \in S |-> "idle"]
    /\ req = [r \in S |-> NoReq]
    /\ h = [r \in S |-> NoLocals]
    /\ lk = [r \in S |-> NoLookup]
    /\ trace = [r \in S |-> << >>]
    /\ sent = [r \in S |-> << >>]
    /\ res = [r \in S |-> << >>]

Init == InitSlots(SerialSlots)

Slots == DOMAIN pc

\* res.status(status).json({...})
Response(status, success, error, message, to, messageId, details) ==
    [status |-> status, success |-> success, error |-> error, message |-> message,
     to |-> to, messageId |-> messageId, details |-> details]

ErrorResponse(status, error) ==
    Response(status, FALSE, Str(error), Undef, Undef, Undef, Undef)

\* express hands a request to the handler of its route
Receive(r, family, body) ==
    /\ pc[r] = "idle"
    /\ nreq < MaxRequests
    /\ nreq' = nreq + 1
    /\ pc' = [pc EXCEPT ![r] = "start"]
    /\ req' = [req EXCEPT ![r] = [family |-> family, body |-> body]]
    /\ UNCHANGED << env, h, lk, trace, sent, res >>

\* the activation ends: its locals are gone once the response is out
Close(r) ==
    /\ pc[r] = "done"
    /\ pc' = [pc EXCEPT ![r] = "idle"]
    /\ req' = [req EXCEPT ![r] = NoReq]
    /\ h' = [h EXCEPT ![r] = NoLocals]
    /\ lk' = [lk EXCEPT ![r] = NoLookup]
    /\ trace' = [trace EXCEPT ![r] = << >>]
    /\ sent' = [sent EXCEPT ![r] = << >>]
    /\ res' = [res EXCEPT ![r] = << >>]
    /\ UNCHANGED << env, nreq >>

\* variant: the response is written on the way out and again by a fall-through
Reply_twice(r, response, events) ==
    /\ res' = [res EXCEPT ![r] = Append(Append(@, response), response)]
    /\ pc' = [pc EXCEPT ![r] = "done"]
    /\ trace' = [trace EXCEPT ![r] = @ \o events \o << "respond" >>]

\* the handler writes one response and returns
Reply(r, response, events) ==
    /\ res' = [res EXCEPT ![r] = Append(@, response)]
    /\ pc' = [pc EXCEPT ![r] = "done"]
    /\ trace' = [trace EXCEPT ![r] = @ \o events \o << "respond" >>]

\* ------------------------------------------------------------------------
\* lookupRecipient
\* ------------------------------------------------------------------------
NullResult == [email |-> Null, name |-> Null]

\* variant: the lookup is started before the handler's own steps so far
CallLookup_first(r, recipientId, events) ==
    IF ~Truthy(recipientId)
    THEN /\ lk' = [lk EXCEPT ![r] = [NoLookup EXCEPT !.recipientId = recipientId,
                                                     !.result = NullResult]]
         /\ pc' = [pc EXCEPT ![r] = "lookup_return"]
         /\ trace' = [trace EXCEPT ![r] = @ \o << "lookupRecipient" >> \o events]
    ELSE /\ lk' = [lk EXCEPT ![r] = [NoLookup EXCEPT !.recipientId = recipientId]]
         /\ pc' = [pc EXCEPT ![r] = "lookup_primary"]
         /\ trace' = [trace EXCEPT ![r] =
                         @ \o << "lookupRecipient", "query:profiles" >> \o events]

\* the call: an empty id returns at once, otherwise the profiles query is
\* issued and awaited
CallLookup(r, recipientId, events) ==
    IF ~Truthy(recipientId)
    THEN /\ lk' = [lk EXCEPT ![r] = [NoLookup EXCEPT !.recipientId = recipientId,
                                                     !.result = NullResult]]
         /\ pc' = [pc EXCEPT ![r] = "lookup_return"]
         /\ trace' = [trace EXCEPT ![r] = @ \o events \o << "lookupRecipient" >>]
    ELSE /\ lk' = [lk EXCEPT ![r] = [NoLookup EXCEPT !.recipientId = recipientId]]
         /\ pc' = [pc EXCEPT ![r] = "lookup_primary"]
         /\ trace' = [trace EXCEPT ![r] =
                         @ \o events \o << "lookupRecipient", "query:profiles" >>]

LookupReturn(r, result, events) ==
    /\ lk' = [lk EXCEPT ![r].result = result]
    /\ pc' = [pc EXCEPT ![r] = "lookup_return"]
    /\ trace' = [trace EXCEPT ![r] = @ \o events]

\* variant: lookupRecipient has no try/catch, a throwing store client reaches
\* the handler's outer catch
LookupThrowEscapes_nocatch(table) == TRUE

\* try { ... } catch (err) { return { email: null, name: null } }: does an
\* exception of the store client leave lookupRecipient?
LookupThrowEscapes(table) == FALSE

\* a query of `table` raised: the catch of lookupRecipient returns nulls
LookupThrow(r, table) ==
    IF LookupThrowEscapes(table)
    THEN /\ Reply(r, Response(500, FALSE,
                              Str(IF req[r].family = "tx" THEN "Server error sending email"
                                  ELSE "Server error sending host email"),
                              Undef, Undef, Undef, Str("fetch failed")),
                  << table \o ":throw" >>)
         /\ UNCHANGED lk
    ELSE /\ LookupReturn(r, NullResult, << table \o ":throw" >>)
         /\ UNCHANGED res

\* variant: every role other than guest is looked up in host_profiles
SecondaryTable_hostDefault(role) ==
    IF role = Str("guest") THEN "guest_profiles" ELSE "host_profiles"

\* if (role === 'guest') ... else if (role === 'host') ...: the table of the
\* second query, "" when there is none
SecondaryTable(role) ==
    IF role = Str("guest") THEN "guest_profiles"
    ELSE IF role = Str("host") THEN "host_profiles"
    ELSE ""

\* the profiles query completes
LookupPrimary(r) ==
    /\ pc[r] = "lookup_primary"
    /\ \E ans \in PrimaryAnswers :
         IF ans.kind = "throw"
         THEN LookupThrow(r, "profiles")
         ELSE IF ans.kind = "error"
         THEN /\ LookupReturn(r, NullResult, << "profiles:error" >>)
              /\ UNCHANGED res
         ELSE LET email == IF ans.profile.present
                           THEN Coalesce(ans.profile.email, Null) ELSE Null
                  role == IF ans.profile.present THEN ans.profile.role ELSE Undef
                  found == IF ans.profile.present THEN "profiles:row" ELSE "profiles:norow"
              IN  /\ IF SecondaryTable(role) = "guest_profiles"
                     THEN /\ lk' = [lk EXCEPT ![r].email = email, ![r].role = role]
                          /\ pc' = [pc EXCEPT ![r] = "lookup_guest"]
                          /\ trace' = [trace EXCEPT ![r] =
                                          @ \o << found, "query:guest_profiles" >>]
                     ELSE IF SecondaryTable(role) = "host_profiles"
                     THEN /\ lk' = [lk EXCEPT ![r].email = email, ![r].role = role]
                          /\ pc' = [pc EXCEPT ![r] = "lookup_host"]
                          /\ trace' = [trace EXCEPT ![r] =
                                          @ \o << found, "query:host_profiles" >>]
                     ELSE /\ lk' = [lk EXCEPT ![r].email = email, ![r].role = role,
                                              ![r].result = [email |-> email, name |-> Null]]
                          /\ pc' = [pc EXCEPT ![r] = "lookup_return"]
                          /\ trace' = [trace EXCEPT ![r] = @ \o << found >>]
                  /\ UNCHANGED res
    /\ UNCHANGED << env, nreq, req, h, sent >>

\* return { email, name } after the role-specific query
SecondaryResult(email, name, found) == [email |-> email, name |-> name]

\* what the log shows of a completed role-specific query: a warning for an
\* error other than PGRST116 (no row), nothing otherwise
SecondaryEvent(table, ans, found) ==
    IF ans.kind = "error" /\ ans.code # "PGRST116" THEN table \o ":warn"
    ELSE IF found THEN table \o ":row"
    ELSE table \o ":norow"

\* the guest_profiles query completes
LookupGuest(r) ==
    /\ pc[r] = "lookup_guest"
    /\ \E ans \in GuestAnswers :
         IF ans.kind = "throw"
         THEN LookupThrow(r, "guest_profiles")
         ELSE LET name == IF ans.guest.present
                          THEN Coalesce(ans.guest.full_name, Null) ELSE Null
              IN  /\ LookupReturn(r, SecondaryResult(lk[r].email, name, ans.guest.present),
                                  << SecondaryEvent("guest_profiles", ans, ans.guest.present) >>)
                  /\ UNCHANGED res
    /\ UNCHANGED << env, nreq, req, h, sent >>

\* variant: the joined parts are returned without .trim()
HostDisplayName_untrimmed(host) ==
    Str(ToStr(OrElse(host.first_name, Str(""))) \o " "
            \o ToStr(OrElse(host.last_name, Str(""))))

\* `${host.first_name || ''} ${host.last_name || ''}`.trim()
HostDisplayName(host) ==
    Str(trim(ToStr(OrElse(host.first_name, Str(""))) \o " "
             \o ToStr(OrElse(host.last_name, Str("")))))

\* the host_profiles query completes
LookupHost(r) ==
    /\ pc[r] = "lookup_host"
    /\ \E ans \in HostAnswers :
         IF ans.kind = "throw"
         THEN LookupThrow(r, "host_profiles")
         ELSE LET name == IF ans.host.present THEN HostDisplayName(ans.host) ELSE Null
              IN  /\ lk' = [lk EXCEPT ![r].host = ans.host,
                                      ![r].result = SecondaryResult(lk[r].email, name,
                                                                    ans.host.present)]
                  /\ pc' = [pc EXCEPT ![r] = "lookup_return"]
                  /\ trace' = [trace EXCEPT ![r] =
                                  @ \o << SecondaryEvent("host_profiles", ans, ans.host.present) >>]
                  /\ UNCHANGED res
    /\ UNCHANGED << env, nreq, req, h, sent >>

\* ------------------------------------------------------------------------
\* shared pieces of the two handlers
\* ------------------------------------------------------------------------
\* `${FROM_NAME || 'MyStay'} <${FROM_EMAIL || SMTP_USER}>`
FromHeader ==
    ToStr(OrElse(env.FROM_NAME, Str("MyStay"))) \o " <"
        \o ToStr(OrElse(env.FROM_EMAIL, env.SMTP_USER)) \o ">"

\* variant: the direct email is not consulted
NeedsLookup_always(targetEmail) == TRUE

\* variant: only a missing direct email counts as absent, an empty one is used
NeedsLookup_nullOnly(targetEmail) == targetEmail = Null

\* variant: the lookup counts as failed only when it returned nothing at all
LookupFailed_both(lookedUpEmail, lookedUpName) ==
    ~Truthy(lookedUpEmail) /\ ~Truthy(lookedUpName)

\* if (!targetEmail): no usable direct email, the identifier is needed
NeedsLookup(targetEmail) == ~Truthy(targetEmail)

\* if (!lookedUpEmail): the lookup gave no usable email
LookupFailed(lookedUpEmail, lookedUpName) == ~Truthy(lookedUpEmail)

\* variant: a looked-up name always wins
ResolvedName_lookupWins(finalName, lookedUpName) ==
    IF Truthy(lookedUpName) THEN lookedUpName ELSE finalName

\* if (!finalName && lookedUpName) finalName = lookedUpName
ResolvedName(finalName, lookedUpName) ==
    IF ~Truthy(finalName) /\ Truthy(lookedUpName) THEN lookedUpName ELSE finalName

\* variant: no inner try/catch, a rejected verify reaches the outer catch
VerifyErrorEscapes_rethrow(ok) == ~ok

\* try { await transporter.verify() } catch (verifyErr) { console.warn(...) }:
\* does the outcome of verify reach the handler's outer catch?
VerifyErrorEscapes(ok) == FALSE

\* variant: the content ids are numbered from a request counter of the module
Attachments_numbered ==
    << [filename |-> "mystay-icon.png", cid |-> "mystay-icon-" \o ToString(nreq)],
       [filename |-> "checkmark.png", cid |-> "checkmark-icon-" \o ToString(nreq)] >>

Attachments ==
    << [filename |-> "mystay-icon.png", cid |-> "mystay-icon"],
       [filename |-> "checkmark.png", cid |-> "checkmark-icon"] >>

\* variant: the resolved name is not handed to the renderer
TxArgs_noRecipientName(b, finalRecipientName) ==
    [recipientName |-> Undef,
     paymentTitle |-> b.payment_title,
     mpesaReceipt |-> Coalesce(b.mpesa_receipt, Null),
     amount |-> b.amount,
     bookingId |-> Coalesce(b.booking_id, Null),
     extraMessage |-> Coalesce(b.extra_message, Null)]

\* ------------------------------------------------------------------------
\* POST /api/v1/email/send
\* ------------------------------------------------------------------------
TxArgs(b, finalRecipientName) ==
    [recipientName |-> finalRecipientName,
     paymentTitle |-> b.payment_title,
     mpesaReceipt |-> Coalesce(b.mpesa_receipt, Null),
     amount |-> b.amount,
     bookingId |-> Coalesce(b.booking_id, Null),
     extraMessage |-> Coalesce(b.extra_message, Null)]

\* variant: the text greets with the name as it is, without `|| 'there'`
TxText_nameAsIs(b, finalRecipientName) ==
    << Val("paymentTitle", ToStr(b.payment_title)),
       Lit("\n\nHi "),
       Val("recipientName", ToStr(finalRecipientName)),
       Lit(",\n\nPayment received.\nAmount: "),
       Val("amount", ToStr(b.amount)),
       Lit("\nM-Pesa Receipt: "),
       Val("mpesaReceipt", ToStr(OrElse(b.mpesa_receipt, Str("Processing...")))),
       Lit("\n") >>
    \o (IF Truthy(b.booking_id)
        THEN << Lit("Booking ID: "), Val("bookingId", ToStr(b.booking_id)), Lit("\n") >>
        ELSE << >>)
    \o << Lit("\n") >>
    \o (IF Truthy(b.extra_message)
        THEN << Lit("\n"), Val("extraMessage", ToStr(b.extra_message)) >>
        ELSE << >>)

\* the plain text version
TxText(b, finalRecipientName) ==
    << Val("paymentTitle", ToStr(b.payment_title)),
       Lit("\n\nHi "),
       Val("recipientName", ToStr(OrElse(finalRecipientName, Str("there")))),
       Lit(",\n\nPayment received.\nAmount: "),
       Val("amount", ToStr(b.amount)),
       Lit("\nM-Pesa Receipt: "),
       Val("mpesaReceipt", ToStr(OrElse(b.mpesa_receipt, Str("Processing...")))),
       Lit("\n") >>
    \o (IF Truthy(b.booking_id)
        THEN << Lit("Booking ID: "), Val("bookingId", ToStr(b.booking_id)), Lit("\n") >>
        ELSE << >>)
    \o << Lit("\n") >>
    \o (IF Truthy(b.extra_message)
        THEN << Lit("\n"), Val("extraMessage", ToStr(b.extra_message)) >>
        ELSE << >>)

\* variant: amount === null is not checked
TxMissingRequired_nonull(b) == ~Truthy(b.payment_title) \/ b.amount = Undef

\* if (!payment_title || amount === undefined || amount === null)
TxMissingRequired(b) ==
    ~Truthy(b.payment_title) \/ b.amount = Undef \/ b.amount = Null

\* from the log line to `await transporter.verify()`; a throw of buildHtml
\* lands in the handler's catch
TxCompose(r, targetEmail, finalRecipientName, events) ==
    LET b == req[r].body
        a == TxArgs(b, finalRecipientName)
    IN  \E year \in Years :
          IF BuildHtmlThrows(a)
          THEN /\ h' = [h EXCEPT ![r].targetEmail = targetEmail,
                                 ![r].finalRecipientName = finalRecipientName]
               /\ Reply(r, Response(500, FALSE, Str("Server error sending email"), Undef,
                                    Undef, Undef,
                                    Str("paymentTitle.toLowerCase is not a function")),
                        events \o << "buildHtml:throw" >>)
          ELSE /\ h' = [h EXCEPT ![r].targetEmail = targetEmail,
                                 ![r].finalRecipientName = finalRecipientName,
                                 ![r].html = buildHtml(a, year),
                                 ![r].text = TxText(b, finalRecipientName)]
               /\ pc' = [pc EXCEPT ![r] = "verify"]
               /\ trace' = [trace EXCEPT ![r] =
                               @ \o events \o << "buildHtml", "createTransporter", "verify" >>]
               /\ UNCHANGED res

\* from the top of the handler to its first await or return
TxStart(r) ==
    /\ pc[r] = "start"
    /\ req[r].family = "tx"
    /\ LET b == req[r].body
           targetEmail == Coalesce(b.email, Null)
           finalRecipientName == Coalesce(b.recipient_name, Str(""))
       IN  IF TxMissingRequired(b)
           THEN /\ Reply(r, ErrorResponse(400, "Missing required fields: payment_title and amount"),
                         << "validate" >>)
                /\ UNCHANGED << h, lk >>
           ELSE IF NeedsLookup(targetEmail)
           THEN IF ~Truthy(b.recipient_id)
                THEN /\ Reply(r, ErrorResponse(400, "Provide either email or recipient_id"),
                              << "validate" >>)
                     /\ h' = [h EXCEPT ![r].targetEmail = targetEmail,
                                       ![r].finalRecipientName = finalRecipientName]
                     /\ UNCHANGED lk
                ELSE /\ CallLookup(r, Str(ToStr(b.recipient_id)), << "validate" >>)
                     /\ h' = [h EXCEPT ![r].targetEmail = targetEmail,
                                       ![r].finalRecipientName = finalRecipientName]
                     /\ UNCHANGED res
           ELSE /\ TxCompose(r, targetEmail, finalRecipientName, << "validate" >>)
                /\ UNCHANGED lk
    /\ UNCHANGED << env, nreq, req, sent >>

\* lookupRecipient has returned
TxResume(r) ==
    /\ pc[r] = "lookup_return"
    /\ req[r].family = "tx"
    /\ LET lookedUpEmail == lk[r].result.email
           lookedUpName == lk[r].result.name
       IN  IF LookupFailed(lookedUpEmail, lookedUpName)
           THEN /\ Reply(r, ErrorResponse(404, "Recipient email not found in database"),
                         << "lookupRecipient:return" >>)
                /\ UNCHANGED h
           ELSE TxCompose(r, lookedUpEmail,
                          ResolvedName(h[r].finalRecipientName, lookedUpName),
                          << "lookupRecipient:return" >>)
    /\ lk' = [lk EXCEPT ![r].host = NoHost]
    /\ UNCHANGED << env, nreq, req, sent >>

\* variant: targetEmail is a variable of the module, written by the activation
\* in the first slot
TxMailOptions_sharedTarget(r) ==
    [from |-> FromHeader,
     to |-> h[1].targetEmail,
     subject |-> req[r].body.payment_title,
     text |-> h[r].text,
     html |-> h[r].html,
     attachments |-> Attachments]

TxMailOptions(r) ==
    [from |-> FromHeader,
     to |-> h[r].targetEmail,
     subject |-> req[r].body.payment_title,
     text |-> h[r].text,
     html |-> h[r].html,
     attachments |-> Attachments]

\* transporter.verify() settles; either way mailOptions is built and
\* transporter.sendMail(mailOptions) is called
TxVerify(r) ==
    /\ pc[r] = "verify"
    /\ req[r].family = "tx"
    /\ \E ok \in BOOLEAN :
         IF VerifyErrorEscapes(ok)
         THEN /\ Reply(r, Response(500, FALSE, Str("Server error sending email"), Undef, Undef, Undef,
                                    Str("verify failed")),
                        << "verify:fail" >>)
              /\ UNCHANGED << h, sent >>
         ELSE /\ trace' = [trace EXCEPT ![r] =
                             @ \o << IF ok THEN "verify:ok" ELSE "verify:fail", "sendMail" >>]
              /\ h' = [h EXCEPT ![r].mailOptions = TxMailOptions(r)]
              /\ sent' = [sent EXCEPT ![r] = Append(@, TxMailOptions(r))]
              /\ pc' = [pc EXCEPT ![r] = "sendMail"]
              /\ UNCHANGED res
    /\ UNCHANGED << env, nreq, req, lk >>

\* variant: a transport failure is answered as a client error without details
TxSendResponse_client(targetEmail, info) ==
    IF info.ok
    THEN Response(200, TRUE, Undef, Str("Email sent successfully"),
                  targetEmail, Coalesce(info.messageId, Null), Undef)
    ELSE Response(400, FALSE, Str("Server error sending email"), Undef, Undef, Undef,
                  Undef)

\* the response after transporter.sendMail settled: the success json, or the
\* outer catch's json with err.message
TxSendResponse(targetEmail, info) ==
    IF info.ok
    THEN Response(200, TRUE, Undef, Str("Email sent successfully"),
                  targetEmail, Coalesce(info.messageId, Null), Undef)
    ELSE Response(500, FALSE, Str("Server error sending email"), Undef, Undef, Undef,
                  Coalesce(info.errMessage, Str(info.errString)))

\* transporter.sendMail settles
TxSendMail(r) ==
    /\ pc[r] = "sendMail"
    /\ req[r].family = "tx"
    /\ \E info \in SendAnswers :
         /\ h' = [h EXCEPT ![r].info = info]
         /\ Reply(r, TxSendResponse(h[r].targetEmail, info),
                  << IF info.ok THEN "sendMail:ok" ELSE "sendMail:fail" >>)
    /\ UNCHANGED << env, nreq, req, lk, sent >>

\* ------------------------------------------------------------------------
\* POST /api/v1/email/host/send
\* ------------------------------------------------------------------------
\* validEmailTypes.join(', ')
RECURSIVE Join(_, _)
Join(seq, sep) ==
    IF seq = << >> THEN ""
    ELSE IF Len(seq) = 1 THEN seq[1]
    ELSE seq[1] \o sep \o Join(Tail(seq), sep)

\* variant: any non-empty email_type is let through
IsValidEmailType_any(email_type) == TRUE

\* validEmailTypes.includes(email_type)
IsValidEmailType(email_type) ==
    \E i \in 1..Len(validEmailTypes) : email_type = Str(validEmailTypes[i])

\* variant: listing_name is demanded for every known type
IsListingEmail_all(email_type) == IsValidEmailType(email_type)

IsListingEmail(email_type) ==
    email_type = Str("submitted") \/ email_type = Str("published")
        \/ email_type = Str("rejected")

IsVerificationEmail(email_type) ==
    email_type = Str("verified") \/ email_type = Str("verification_rejected")

\* variant: the two reason checks are missing
HostValidationError_noreason(b) ==
    IF ~Truthy(b.email_type)
    THEN "Missing required field: email_type"
    ELSE IF IsListingEmail(b.email_type) /\ ~Truthy(b.listing_name)
    THEN "Missing required field: listing_name (required for listing emails)"
    ELSE IF ~IsValidEmailType(b.email_type)
    THEN "email_type must be one of: " \o Join(validEmailTypes, ", ")
    ELSE ""

\* the validation block: the error message of the first check that fails,
\* "" when all pass
HostValidationError(b) ==
    IF ~Truthy(b.email_type)
    THEN "Missing required field: email_type"
    ELSE IF IsListingEmail(b.email_type) /\ ~Truthy(b.listing_name)
    THEN "Missing required field: listing_name (required for listing emails)"
    ELSE IF ~IsValidEmailType(b.email_type)
    THEN "email_type must be one of: " \o Join(validEmailTypes, ", ")
    ELSE IF b.email_type = Str("rejected") /\ ~Truthy(b.rejection_reason)
    THEN "rejection_reason is required when email_type is \"rejected\""
    ELSE IF b.email_type = Str("verification_rejected")
            /\ ~Truthy(b.verification_rejection_reason)
    THEN "verification_rejection_reason is required when email_type is \"verification_rejected\""
    ELSE ""

\* variant: email_type is not handed to the renderer
HostArgs_noType(b, finalHostName) ==
    [hostName |-> finalHostName,
     listingName |-> OrElse(b.listing_name, Str("")),
     emailType |-> Undef,
     rejectionReason |-> OrElse(b.rejection_reason, Null),
     verificationRejectionReason |-> OrElse(b.verification_rejection_reason, Null)]

HostArgs(b, finalHostName) ==
    [hostName |-> finalHostName,
     listingName |-> OrElse(b.listing_name, Str("")),
     emailType |-> b.email_type,
     rejectionReason |-> OrElse(b.rejection_reason, Null),
     verificationRejectionReason |-> OrElse(b.verification_rejection_reason, Null)]

HostSubject(b) ==
    IF b.email_type = Str("published")
    THEN Str("Your listing '" \o ToStr(b.listing_name) \o "' has been published")
    ELSE IF b.email_type = Str("submitted")
    THEN Str("Your listing '" \o ToStr(b.listing_name) \o "' has been submitted")
    ELSE IF b.email_type = Str("rejected")
    THEN Str("Your listing '" \o ToStr(b.listing_name) \o "' was not approved")
    ELSE IF b.email_type = Str("verified")
    THEN Str("Your host account has been verified")
    ELSE IF b.email_type = Str("verification_rejected")
    THEN Str("Host verification not approved")
    ELSE Undef

HostText(b, finalHostName) ==
    LET hi == << Lit("Hi "),
                 Val("hostName", ToStr(OrElse(finalHostName, Str("there")))),
                 Lit(",\n\n") >>
        listing == Val("listingName", ToStr(b.listing_name))
    IN  IF b.email_type = Str("published")
        THEN hi \o << Lit("We are pleased to inform you that your submission '"), listing,
                      Lit("' was just published on our app. Thank you.") >>
        ELSE IF b.email_type = Str("submitted")
        THEN hi \o << Lit("Thank you for submitting your listing '"), listing, Lit("'.") >>
        ELSE IF b.email_type = Str("rejected")
        THEN hi \o << Lit("We're sorry to inform you that your listing '"), listing,
                      Lit("' was not approved after review.\n\nReason: "),
                      Val("rejectionReason", ToStr(b.rejection_reason)),
                      Lit("\n\nIf you'd like more information or wish to try again, please contact our support team.") >>
        ELSE IF b.email_type = Str("verified")
        THEN hi \o << Lit("Congratulations! Your host account has been successfully verified. You can now start creating and managing your listings on MyStay App.\n\nWelcome to the MyStay community!") >>
        ELSE IF b.email_type = Str("verification_rejected")
        THEN hi \o << Lit("We're sorry to inform you that your host verification request was not approved.\n\nReason: "),
                      Val("verificationRejectionReason",
                          ToStr(b.verification_rejection_reason)),
                      Lit("\n\nIf you'd like more information or wish to resubmit your verification, please contact our support team.") >>
        ELSE << >>

\* from the log line to `await transporter.verify()`
HostCompose(r, targetEmail, finalHostName, events) ==
    LET b == req[r].body
    IN  \E year \in Years :
          /\ h' = [h EXCEPT ![r].targetEmail = targetEmail,
                            ![r].finalRecipientName = finalHostName,
                            ![r].html = buildHostHtml(HostArgs(b, finalHostName), year),
                            ![r].subject = HostSubject(b),
                            ![r].text = HostText(b, finalHostName)]
          /\ pc' = [pc EXCEPT ![r] = "verify"]
          /\ trace' = [trace EXCEPT ![r] =
                          @ \o events \o << "buildHostHtml", "createTransporter", "verify" >>]
          /\ UNCHANGED res

\* from the top of the handler to its first await or return
HostStart(r) ==
    /\ pc[r] = "start"
    /\ req[r].family = "host"
    /\ LET b == req[r].body
           targetEmail == Coalesce(b.host_email, Null)
           finalHostName == Coalesce(b.host_name, Str(""))
       IN  IF HostValidationError(b) # ""
           THEN /\ Reply(r, ErrorResponse(400, HostValidationError(b)), << "validate" >>)
                /\ UNCHANGED << h, lk >>
           ELSE IF NeedsLookup(targetEmail)
           THEN IF ~Truthy(b.host_id)
                THEN /\ Reply(r, ErrorResponse(400, "Provide either host_email or host_id"),
                              << "validate" >>)
                     /\ h' = [h EXCEPT ![r].targetEmail = targetEmail,
                                       ![r].finalRecipientName = finalHostName]
                     /\ UNCHANGED lk
                ELSE /\ CallLookup(r, Str(ToStr(b.host_id)), << "validate" >>)
                     /\ h' = [h EXCEPT ![r].targetEmail = targetEmail,
                                       ![r].finalRecipientName = finalHostName]
                     /\ UNCHANGED res
           ELSE /\ HostCompose(r, targetEmail, finalHostName, << "validate" >>)
                /\ UNCHANGED lk
    /\ UNCHANGED << env, nreq, req, sent >>

\* lookupRecipient has returned
HostResume(r) ==
    /\ pc[r] = "lookup_return"
    /\ req[r].family = "host"
    /\ LET lookedUpEmail == lk[r].result.email
           lookedUpName == lk[r].result.name
       IN  IF LookupFailed(lookedUpEmail, lookedUpName)
           THEN /\ Reply(r, ErrorResponse(404, "Host email not found in database"),
                         << "lookupRecipient:return" >>)
                /\ UNCHANGED h
           ELSE HostCompose(r, lookedUpEmail,
                            ResolvedName(h[r].finalRecipientName, lookedUpName),
                            << "lookupRecipient:return" >>)
    /\ lk' = [lk EXCEPT ![r].host = NoHost]
    /\ UNCHANGED << env, nreq, req, sent >>

HostMailOptions(r) ==
    [from |-> FromHeader,
     to |-> h[r].targetEmail,
     subject |-> h[r].subject,
     text |-> h[r].text,
     html |-> h[r].html,
     attachments |-> Attachments]

\* transporter.verify() settles; either way mailOptions is built and
\* transporter.sendMail(mailOptions) is called
HostVerify(r) ==
    /\ pc[r] = "verify"
    /\ req[r].family = "host"
    /\ \E ok \in BOOLEAN :
         IF VerifyErrorEscapes(ok)
         THEN /\ Reply(r, Response(500, FALSE, Str("Server error sending host email"), Undef, Undef, Undef,
                                    Str("verify failed")),
                        << "verify:fail" >>)
              /\ UNCHANGED << h, sent >>
         ELSE /\ trace' = [trace EXCEPT ![r] =
                             @ \o << IF ok THEN "verify:ok" ELSE "verify:fail", "sendMail" >>]
              /\ h' = [h EXCEPT ![r].mailOptions = HostMailOptions(r)]
              /\ sent' = [sent EXCEPT ![r] = Append(@, HostMailOptions(r))]
              /\ pc' = [pc EXCEPT ![r] = "sendMail"]
              /\ UNCHANGED res
    /\ UNCHANGED << env, nreq, req, lk >>

\* the response after transporter.sendMail settled
HostSendResponse(targetEmail, info) ==
    IF info.ok
    THEN Response(200, TRUE, Undef, Str("Host email sent successfully"),
                  targetEmail, Coalesce(info.messageId, Null), Undef)
    ELSE Response(500, FALSE, Str("Server error sending host email"), Undef, Undef, Undef,
                  Coalesce(info.errMessage, Str(info.errString)))

\* transporter.sendMail settles
HostSendMail(r) ==
    /\ pc[r] = "sendMail"
    /\ req[r].family = "host"
    /\ \E info \in SendAnswers :
         /\ h' = [h EXCEPT ![r].info = info]
         /\ Reply(r, HostSendResponse(h[r].targetEmail, info),
                  << IF info.ok THEN "sendMail:ok" ELSE "sendMail:fail" >>)
    /\ UNCHANGED << env, nreq, req, lk, sent >>

\* ------------------------------------------------------------------------
\* Specification: requests are served one after the other
\* ------------------------------------------------------------------------
Quiet == \A q \in Slots : pc[q] = "idle"

ReceiveTx(r) == Quiet /\ \E body \in TxBodies : Receive(r, "tx", body)

ReceiveHost(r) == Quiet /\ \E body \in HostBodies : Receive(r, "host", body)

Next ==
    \E r \in Slots :
        \/ ReceiveTx(r)
        \/ ReceiveHost(r)
        \/ TxStart(r)
        \/ TxResume(r)
        \/ TxVerify(r)
        \/ TxSendMail(r)
        \/ HostStart(r)
        \/ HostResume(r)
        \/ HostVerify(r)
        \/ HostSendMail(r)
        \/ LookupPrimary(r)
        \/ LookupGuest(r)
        \/ LookupHost(r)
        \/ Close(r)

Spec == Init /\ [][Next]_vars

\* requests that differ in what decides the handler's path (required fields,
\* direct email, identifier) and not in the optional display fields
PathTxBodies ==
    { b \in TxBodies : /\ b.recipient_name = Undef
                       /\ b.mpesa_receipt = Undef
                       /\ b.booking_id = Undef
                       /\ b.amount \in {Undef, Str("KES 5000")} }
PathHostBodies ==
    { b \in HostBodies : b.host_name = Undef /\ b.host_email # Str("") }

ReceivePathTx(r) == Quiet /\ \E body \in PathTxBodies : Receive(r, "tx", body)

ReceivePathHost(r) == Quiet /\ \E body \in PathHostBodies : Receive(r, "host", body)

LiveNext ==
    \E r \in Slots :
        \/ ReceivePathTx(r)
        \/ ReceivePathHost(r)
        \/ TxStart(r)
        \/ TxResume(r)
        \/ TxVerify(r)
        \/ TxSendMail(r)
        \/ HostStart(r)
        \/ HostResume(r)
        \/ HostVerify(r)
        \/ HostSendMail(r)
        \/ LookupPrimary(r)
        \/ LookupGuest(r)
        \/ LookupHost(r)
        \/ Close(r)

\* an awaited store query, verify or sendMail call of request r returns
AwaitReturns(r) ==
    \/ LookupPrimary(r)
    \/ LookupGuest(r)
    \/ LookupHost(r)
    \/ TxVerify(r)
    \/ HostVerify(r)
    \/ TxSendMail(r)
    \/ HostSendMail(r)

\* the handler's own synchronous code, entered at the route or resumed after
\* `await lookupRecipient(...)`, runs on to its next await or to its return
SyncPositions == {"start", "lookup_return"}
RunsOn(r) ==
    /\ pc[r] \in SyncPositions
    /\ \E p \in {"lookup_primary", "lookup_return", "verify", "done"} \ {pc[r]} :
          pc' = [pc EXCEPT ![r] = p]

\* the same program when every awaited external call returns and the event
\* loop runs synchronous code to completion
LiveSpec ==
    /\ Init /\ [][LiveNext]_vars
    /\ \A r \in SerialSlots : WF_vars(AwaitReturns(r)) /\ WF_pc(RunsOn(r))

\* ------------------------------------------------------------------------
\* Specification: two handler activations in flight at once.  Requests arrive
\* while another is awaited and the steps of the two interleave freely; both
\* activations are kept, with their responses, to be compared.  The
\* role-specific queries of lookupRecipient stay pending.
\* ------------------------------------------------------------------------
ConcSlots == {1, 2}

\* a transaction request that fails validation, one with a direct email and
\* one that needs the lookup; a host request with a direct email
ConcTxBodies ==
    { b \in TxBodies : /\ b.payment_title \in {Undef, Str("Rent Payment")}
                       /\ b.amount = Str("KES 5000")
                       /\ << b.email, b.recipient_id >>
                              \in { << Str("a@b.com"), Undef >>, << Undef, Str("u1") >> }
                       /\ b.recipient_name = Undef
                       /\ b.mpesa_receipt = Undef
                       /\ b.booking_id = Undef }
ConcHostBodies ==
    { b \in HostBodies : /\ b.email_type = Str("published")
                         /\ b.listing_name # Undef
                         /\ b.rejection_reason = Undef
                         /\ b.verification_rejection_reason = Undef
                         /\ b.host_email = Str("h@x.com")
                         /\ b.host_id = Undef
                         /\ b.host_name = Undef }

ReceiveConcTx(r) == \E body \in ConcTxBodies : Receive(r, "tx", body)

ReceiveConcHost(r) == \E body \in ConcHostBodies : Receive(r, "host", body)

ConcInit == InitSlots(ConcSlots)

ConcNext ==
    \E r \in Slots :
        \/ ReceiveConcTx(r)
        \/ ReceiveConcHost(r)
        \/ TxStart(r)
        \/ TxResume(r)
        \/ TxVerify(r)
        \/ TxSendMail(r)
        \/ HostStart(r)
        \/ HostVerify(r)
        \/ HostSendMail(r)
        \/ LookupPrimary(r)

ConcSpec == ConcInit /\ [][ConcNext]_vars

\* ------------------------------------------------------------------------
\* Specification: the transaction handler rendering titles made of a word
\* with and without text around it
\* ------------------------------------------------------------------------
TriggerWords ==
    {"refund", "Refund", "REFUND", "reversal", "ReVersal", "reimbursement", "REIMBURSEMENT"}
OtherWords == {"payment", "refun", "re-fund", "reversed", "reimburse", "Rent"}
TitlePrefixes == {"", "Booking ", "x"}
TitleSuffixes == {"", " Issued", "!"}
RenderCases ==
    [prefix : TitlePrefixes, word : TriggerWords \cup OtherWords, suffix : TitleSuffixes]
TitleOf(c) == Str(c.prefix \o c.word \o c.suffix)

RenderBodies ==
    { [payment_title |-> TitleOf(c), amount |-> Str("KES 5000"), email |-> Str("a@b.com"),
       recipient_id |-> Undef, recipient_name |-> Undef, mpesa_receipt |-> Undef,
       booking_id |-> Undef, extra_message |-> Undef] : c \in RenderCases }

ReceiveRender(r) == Quiet /\ \E body \in RenderBodies : Receive(r, "tx", body)

RenderNext ==
    \E r \in Slots :
        \/ ReceiveRender(r)
        \/ TxStart(r)
        \/ TxVerify(r)
        \/ TxSendMail(r)
        \/ Close(r)

RenderSpec == Init /\ [][RenderNext]_vars

TypeOK ==
    /\ nreq \in 0..MaxRequests
    /\ \A r \in Slots : Len(res[r]) <= 1 /\ Len(sent[r]) <= 1

\* ------------------------------------------------------------------------
\* Vocabulary of the properties
\* ------------------------------------------------------------------------
IsTx(r) == req[r].family = "tx"
IsHost(r) == req[r].family = "host"
Body(r) == req[r].body

\* the step `ev` has happened in request r
Called(r, ev) == \E i \in 1..Len(trace[r]) : trace[r][i] = ev

\* steps with an effect outside the handler, or that build the message
EffectSteps ==
    {"lookupRecipient", "query:profiles", "query:guest_profiles", "query:host_profiles",
     "buildHtml", "buildHostHtml", "createTransporter", "verify", "sendMail"}

NoEffect(r) ==
    /\ \A i \in 1..Len(trace[r]) : trace[r][i] \notin EffectSteps
    /\ sent[r] = << >>
    /\ h[r].html = << >>
    /\ h[r].mailOptions = << >>

\* the request ended with exactly this status, as an error
EndedWithError(r, status) ==
    /\ Len(res[r]) = 1
    /\ res[r][1].status = status
    /\ res[r][1].success = FALSE

FiveTypes ==
    {Str("submitted"), Str("published"), Str("rejected"), Str("verified"),
     Str("verification_rejected")}
ListingTypes == {Str("submitted"), Str("published"), Str("rejected")}

\* the request passes the field validation of its handler
TxFieldsValid(b) == Truthy(b.payment_title) /\ b.amount \notin {Undef, Null}
HostFieldsValid(b) ==
    /\ b.email_type \in FiveTypes
    /\ b.email_type \in ListingTypes => Truthy(b.listing_name)
    /\ b.email_type = Str("rejected") => Truthy(b.rejection_reason)
    /\ b.email_type = Str("verification_rejected") => Truthy(b.verification_rejection_reason)
FieldsValid(r) ==
    \/ IsTx(r) /\ TxFieldsValid(Body(r))
    \/ IsHost(r) /\ HostFieldsValid(Body(r))

\* the caller's direct email, identifier and name
GivenEmail(r) == IF IsTx(r) THEN Body(r).email ELSE Body(r).host_email
GivenId(r) == IF IsTx(r) THEN Body(r).recipient_id ELSE Body(r).host_id
GivenName(r) == IF IsTx(r) THEN Body(r).recipient_name ELSE Body(r).host_name
Serving(r) == IsTx(r) \/ IsHost(r)

\* ------------------------------------------------------------------------
\* C1: a valid request with a direct email (email / host_email) never calls
\* lookupRecipient, and every envelope handed to sendMail has `to` equal to
\* the supplied email.
\* ------------------------------------------------------------------------
C1_DirectEmailUsedAsIs ==
    \A r \in Slots :
        (Serving(r) /\ FieldsValid(r) /\ Truthy(GivenEmail(r)))
        => /\ ~Called(r, "lookupRecipient")
           /\ ~Called(r, "query:profiles")
           /\ \A i \in 1..Len(sent[r]) : sent[r][i].to = GivenEmail(r)

\* a direct-email request that also carries an identifier has been sent
C1_Witness ==
    \E r \in Slots :
        /\ Serving(r) /\ FieldsValid(r)
        /\ Truthy(GivenEmail(r)) /\ Truthy(GivenId(r))
        /\ Len(sent[r]) = 1
        /\ pc[r] = "done"

\* ------------------------------------------------------------------------
\* C2: a valid request with only an identifier whose lookup returned
\* email = null ends as a 404, whatever name the lookup returned: no message
\* is rendered, no envelope built, no transporter created, no verify, no
\* sendMail.
\* ------------------------------------------------------------------------
C2_NullEmailIsNotFound ==
    \A r \in Slots :
        (/\ Serving(r) /\ FieldsValid(r)
         /\ ~Truthy(GivenEmail(r)) /\ Truthy(GivenId(r))
         /\ lk[r].result.email = Null)
        => /\ pc[r] \in {"lookup_return", "done"}
           /\ \A ev \in {"buildHtml", "buildHostHtml", "createTransporter", "verify",
                         "sendMail"} : ~Called(r, ev)
           /\ sent[r] = << >> /\ h[r].mailOptions = << >> /\ h[r].html = << >>
           /\ pc[r] = "done" => EndedWithError(r, 404)

\* the lookup returned a name but no email, and the request has ended
C2_Witness ==
    \E r \in Slots :
        /\ Serving(r) /\ FieldsValid(r)
        /\ ~Truthy(GivenEmail(r)) /\ Truthy(GivenId(r))
        /\ lk[r].result.email = Null
        /\ Truthy(lk[r].result.name)
        /\ pc[r] = "done"

\* ------------------------------------------------------------------------
\* C3: a transaction request with an empty/absent payment_title, an
\* undefined or null amount, or neither email nor recipient_id ends as a 400
\* and does nothing else: no lookup, no render, no verify, no sendMail.
\* ------------------------------------------------------------------------
TxRejectable(b) ==
    \/ ~Truthy(b.payment_title)
    \/ b.amount \in {Undef, Null}
    \/ ~Truthy(b.email) /\ ~Truthy(b.recipient_id)

C3_TxValidationHasNoEffect ==
    \A r \in Slots :
        (IsTx(r) /\ TxRejectable(Body(r)))
        => /\ NoEffect(r)
           /\ pc[r] \in {"start", "done"}
           /\ pc[r] = "done" => EndedWithError(r, 400)

\* a request with a title, a direct email and amount null has been answered
C3_Witness ==
    \E r \in Slots :
        /\ IsTx(r)
        /\ Truthy(Body(r).payment_title) /\ Body(r).amount = Null
        /\ Truthy(Body(r).email)
        /\ pc[r] = "done"

\* ------------------------------------------------------------------------
\* C4: a host request of type rejected without rejection_reason, or of type
\* verification_rejected without verification_rejection_reason, ends as a 400
\* with no lookup, no render and no send, also when host_id or host_email is
\* supplied.
\* ------------------------------------------------------------------------
MissingReason(b) ==
    \/ b.email_type = Str("rejected") /\ ~Truthy(b.rejection_reason)
    \/ b.email_type = Str("verification_rejected")
           /\ ~Truthy(b.verification_rejection_reason)

C4_MissingReasonHasNoEffect ==
    \A r \in Slots :
        (IsHost(r) /\ MissingReason(Body(r)))
        => /\ NoEffect(r)
           /\ pc[r] \in {"start", "done"}
           /\ pc[r] = "done" => EndedWithError(r, 400)

\* a rejected request with listing name and host_email but no reason has
\* been answered
C4_Witness ==
    \E r \in Slots :
        /\ IsHost(r)
        /\ Body(r).email_type = Str("rejected")
        /\ ~Truthy(Body(r).rejection_reason)
        /\ Truthy(Body(r).listing_name)
        /\ Truthy(Body(r).host_email)
        /\ pc[r] = "done"

\* ------------------------------------------------------------------------
\* C5: in the host handler a send is attempted only for one of the five
\* email types; every other value, absent included, ends as a 400.
\* ------------------------------------------------------------------------
AllowedList == "submitted, published, rejected, verified, verification_rejected"

OnlyFiveTypesAreSentOrElse400 ==
    \A r \in Slots :
        IsHost(r)
        => /\ (Called(r, "sendMail") \/ Called(r, "verify")) => Body(r).email_type \in FiveTypes
           /\ Body(r).email_type \notin FiveTypes
                  => /\ NoEffect(r)
                     /\ pc[r] = "done" => EndedWithError(r, 400)

\* C5 as stated: moreover, for every present (not undefined) value that is not
\* one of the five, the error message names the five allowed values.
C5_PresentUnknownNamesAllowed ==
    /\ OnlyFiveTypesAreSentOrElse400
    /\ \A r \in Slots :
           (IsHost(r) /\ pc[r] = "done"
            /\ Body(r).email_type # Undef /\ Body(r).email_type \notin FiveTypes)
           => includes(ToStr(res[r][1].error), AllowedList)

\* C5 amended: the error message names the five allowed values for every
\* truthy (non-empty) value that is not one of the five; an empty value is
\* answered like an absent one.
C5_NonEmptyUnknownNamesAllowed ==
    /\ OnlyFiveTypesAreSentOrElse400
    /\ \A r \in Slots :
           (IsHost(r) /\ pc[r] = "done" /\ Body(r).email_type \notin FiveTypes)
           => IF Truthy(Body(r).email_type)
              THEN includes(ToStr(res[r][1].error), AllowedList)
              ELSE res[r][1].error = Str("Missing required field: email_type")

\* an unknown, non-empty email_type has been answered, with a recipient given
C5_Witness ==
    \E r \in Slots :
        /\ IsHost(r)
        /\ Body(r).email_type = Str("archived")
        /\ Truthy(Body(r).host_email)
        /\ pc[r] = "done"

\* ------------------------------------------------------------------------
\* C6: listing_name is required exactly for submitted, published and
\* rejected.  Without it such a request ends as a 400; a verified request (or
\* a verification_rejected one with its reason) without listing_name and with
\* host_email is not rejected: it goes on to verify and sendMail, with a
\* subject that refers to verification.
\* ------------------------------------------------------------------------
VerificationReady(b) ==
    \/ b.email_type = Str("verified")
    \/ b.email_type = Str("verification_rejected")
           /\ Truthy(b.verification_rejection_reason)

C6_ListingNameRequiredForListingTypesOnly ==
    \A r \in Slots :
        IsHost(r)
        => /\ (Body(r).email_type \in ListingTypes /\ ~Truthy(Body(r).listing_name))
                  => /\ NoEffect(r)
                     /\ pc[r] = "done" => EndedWithError(r, 400)
           /\ (/\ VerificationReady(Body(r))
               /\ ~Truthy(Body(r).listing_name)
               /\ Truthy(Body(r).host_email))
                  => /\ pc[r] # "start" => Called(r, "verify")
                     /\ pc[r] = "done"
                            => /\ Len(sent[r]) = 1
                               /\ res[r][1].status # 400
                     /\ \A i \in 1..Len(sent[r]) :
                            includes(toLowerCase(ToStr(sent[r][i].subject)), "verif")

\* a verified request without listing_name was sent and answered with 200
C6_Witness ==
    \E r \in Slots :
        /\ IsHost(r)
        /\ Body(r).email_type = Str("verified")
        /\ Body(r).listing_name = Undef
        /\ Truthy(Body(r).host_email)
        /\ pc[r] = "done"
        /\ res[r][1].status = 200

\* ------------------------------------------------------------------------
\* C7: a rejected transporter.verify never prevents the sendMail call that
\* follows and leaves no mark on the result: when sendMail then succeeds the
\* response is the success response (200, success, to, messageId; no error,
\* no details), as after a successful verify.
\* ------------------------------------------------------------------------
SuccessResponseOf(r) ==
    [status |-> 200, success |-> TRUE, error |-> Undef,
     message |-> Str(IF IsTx(r) THEN "Email sent successfully"
                     ELSE "Host email sent successfully"),
     to |-> sent[r][1].to, messageId |-> Coalesce(h[r].info.messageId, Null),
     details |-> Undef]

C7_VerifyFailureIsHarmless ==
    \A r \in Slots :
        Called(r, "verify:fail")
        => /\ Called(r, "sendMail")
           /\ Len(sent[r]) = 1
           /\ pc[r] \in {"sendMail", "done"}
           /\ (pc[r] = "done" /\ h[r].info.ok) => res[r] = << SuccessResponseOf(r) >>

\* verify was rejected, sendMail succeeded, the request is answered
C7_Witness ==
    \E r \in Slots :
        /\ Called(r, "verify:fail")
        /\ Called(r, "sendMail:ok")
        /\ pc[r] = "done"

\* ------------------------------------------------------------------------
\* C8: every request that passes validation and recipient resolution causes
\* exactly one sendMail call, whatever verify and sendMail return, and no
\* request causes more than one.
\* ------------------------------------------------------------------------
Resolved(r) ==
    \/ Truthy(GivenEmail(r))
    \/ Truthy(GivenId(r)) /\ Truthy(lk[r].result.email)

C8_ExactlyOneSendMail ==
    \A r \in Slots :
        /\ Len(sent[r]) <= 1
        /\ (Serving(r) /\ FieldsValid(r) /\ Resolved(r) /\ pc[r] = "done")
               => Len(sent[r]) = 1

\* ------------------------------------------------------------------------
\* C9: once sendMail has been called its outcome alone decides the result:
\* success gives 200 with success = true, `to` and the transport's messageId
\* (null when the transport gave none); failure gives 500 with success = false
\* and the transport's error message as details.
\* ------------------------------------------------------------------------
C9_SendMailDecidesResult ==
    \A r \in Slots :
        (Called(r, "sendMail") /\ pc[r] = "done")
        => IF h[r].info.ok
           THEN res[r] = << SuccessResponseOf(r) >>
           ELSE /\ EndedWithError(r, 500)
                /\ res[r][1].details
                       = Coalesce(h[r].info.errMessage, Str(h[r].info.errString))
                /\ res[r][1].to = Undef /\ res[r][1].messageId = Undef

\* a transaction request whose sendMail was rejected has been answered
C9_Witness ==
    \E r \in Slots :
        /\ IsTx(r)
        /\ Called(r, "sendMail:fail")
        /\ pc[r] = "done"
        /\ h[r].info.errMessage = Str("ECONNREFUSED")

\* ------------------------------------------------------------------------
\* C10: a non-empty caller name (recipient_name / host_name) is the name of
\* the rendered message whatever name the lookup returns; the looked-up name
\* is used only when the caller gave no name.
\* ------------------------------------------------------------------------
SlotValue(doc, slot) ==
    LET i == CHOOSE j \in 1..Len(doc) : doc[j].slot = slot IN doc[i].s

NameSlot(r) == IF IsTx(r) THEN "recipientName" ELSE "hostName"

C10_CallerNameWins ==
    \A r \in Slots :
        (Serving(r) /\ h[r].html # << >>)
        => /\ Truthy(GivenName(r))
               => /\ SlotValue(h[r].html, NameSlot(r)) = EscapeString(ToStr(GivenName(r)))
                  /\ SlotValue(h[r].text, NameSlot(r)) = ToStr(GivenName(r))
           /\ (Truthy(lk[r].result.name) /\ h[r].finalRecipientName = lk[r].result.name)
               => ~Truthy(GivenName(r))

\* rendered after a lookup that returned a name other than the caller's
C10_Witness ==
    \E r \in Slots :
        /\ Serving(r)
        /\ h[r].html # << >>
        /\ Truthy(GivenName(r))
        /\ Truthy(lk[r].result.name)
        /\ lk[r].result.name # GivenName(r)

\* ------------------------------------------------------------------------
\* C11: when the profiles query fails, by an error value or by an exception,
\* lookupRecipient returns {email: null, name: null}, raises nothing and
\* issues no second query; the request that relied on it ends with 404 and
\* never with a send or an escaped exception.
\* ------------------------------------------------------------------------
PrimaryFailed(r) == Called(r, "profiles:error") \/ Called(r, "profiles:throw")

SecondaryQueried(r) == Called(r, "query:guest_profiles") \/ Called(r, "query:host_profiles")

C11_PrimaryFailureIsNotFound ==
    \A r \in Slots :
        PrimaryFailed(r)
        => /\ pc[r] \in {"lookup_return", "done"}
           /\ lk[r].result = NullResult
           /\ ~SecondaryQueried(r)
           /\ ~Called(r, "sendMail")
           /\ sent[r] = << >>
           /\ pc[r] = "done" => EndedWithError(r, 404)

\* a request whose profiles query raised has been answered
C11_Witness ==
    \E r \in Slots :
        /\ Serving(r)
        /\ Called(r, "profiles:throw")
        /\ pc[r] = "done"
        /\ EndedWithError(r, 404)

\* ------------------------------------------------------------------------
\* C12: for a profile with a non-null email and role guest or host, a failure
\* of the role-specific query other than no-row, whether returned as an error
\* value or raised as an exception, gives name = null and lookupRecipient
\* still returns the email of the profiles query.
\* ------------------------------------------------------------------------
SecondaryFailed(r) ==
    \/ Called(r, "guest_profiles:warn") \/ Called(r, "guest_profiles:throw")
    \/ Called(r, "host_profiles:warn") \/ Called(r, "host_profiles:throw")

C12_SecondaryFailureKeepsEmail ==
    \A r \in Slots :
        (/\ lk[r].role \in {Str("guest"), Str("host")}
         /\ lk[r].email # Null
         /\ SecondaryFailed(r))
        => lk[r].result = [email |-> lk[r].email, name |-> Null]

\* ------------------------------------------------------------------------
\* C13: for role guest, when the guest_profiles query finds no row,
\* lookupRecipient returns name = null with the email of the profiles query,
\* and the request that relied on it proceeds to send instead of ending in
\* an error.
\* ------------------------------------------------------------------------
GuestNoRow(r) == lk[r].role = Str("guest") /\ Called(r, "guest_profiles:norow")

C13_GuestNoRowProceedsToSend ==
    \A r \in Slots :
        GuestNoRow(r)
        => /\ lk[r].result = [email |-> lk[r].email, name |-> Null]
           /\ (Serving(r) /\ Truthy(lk[r].email) /\ pc[r] = "done")
                  => /\ Called(r, "sendMail")
                     /\ Len(sent[r]) = 1

\* ------------------------------------------------------------------------
\* C14: every request to either endpoint gets exactly one HTTP response: on
\* every path the response is written once and never twice, and, when the
\* awaited lookup, verify and send calls return, it is eventually written.
\* ------------------------------------------------------------------------
AtMostOneResponse ==
    \A r \in Slots :
        /\ Len(res[r]) <= 1
        /\ pc[r] = "done" <=> Len(res[r]) = 1
        /\ Len(res[r]) = 1 => Called(r, "respond")

C14_ExactlyOneResponse ==
    /\ []AtMostOneResponse
    /\ \A r \in SerialSlots :
          (pc[r] = "start") ~> (pc[r] = "done" /\ Len(res[r]) = 1)

\* a request whose renderer raised has been answered once, by the outer catch
C14_Witness ==
    \E r \in Slots :
        /\ Called(r, "buildHtml:throw")
        /\ pc[r] = "done"
        /\ Len(res[r]) = 1
        /\ res[r][1].status = 500

\* ------------------------------------------------------------------------
\* C15: under any interleaving of concurrent requests each request's outcome
\* (status, recipient, subject, bodies, number of send attempts) is the one
\* it has when run alone with the same lookup, verify and send answers: a step
\* of one request touches nothing of another, and a transport failure in one
\* does not change the other's result.
\* ------------------------------------------------------------------------
SlotVars(r) == << pc[r], req[r], h[r], lk[r], trace[r], sent[r], res[r] >>

\* what the request in slot r, run alone, gives from its own body and the
\* answers it received
AloneTo(r) == IF Truthy(GivenEmail(r)) THEN GivenEmail(r) ELSE lk[r].result.email
AloneName(r) ==
    IF Truthy(GivenEmail(r)) THEN Coalesce(GivenName(r), Str(""))
    ELSE ResolvedName(Coalesce(GivenName(r), Str("")), lk[r].result.name)
AloneEnvelope(r, year) ==
    IF IsTx(r)
    THEN [from |-> FromHeader, to |-> AloneTo(r), subject |-> Body(r).payment_title,
          text |-> TxText(Body(r), AloneName(r)),
          html |-> buildHtml(TxArgs(Body(r), AloneName(r)), year),
          attachments |-> Attachments]
    ELSE [from |-> FromHeader, to |-> AloneTo(r), subject |-> HostSubject(Body(r)),
          text |-> HostText(Body(r), AloneName(r)),
          html |-> buildHostHtml(HostArgs(Body(r), AloneName(r)), year),
          attachments |-> Attachments]
AloneStatus(r) ==
    IF ~FieldsValid(r) THEN 400
    ELSE IF ~Truthy(GivenEmail(r)) /\ ~Truthy(GivenId(r)) THEN 400
    ELSE IF ~Resolved(r) THEN 404
    ELSE IF sent[r] = << >> THEN 500
    ELSE IF h[r].info.ok THEN 200 ELSE 500

OutcomeIsOwn ==
    \A r \in Slots :
        /\ Len(sent[r]) <= 1
        /\ sent[r] # << >> => \E year \in Years : sent[r][1] = AloneEnvelope(r, year)
        /\ pc[r] = "done"
              => /\ Len(res[r]) = 1
                 /\ res[r][1].status = AloneStatus(r)
                 /\ sent[r] # << >>
                       => res[r][1] = IF IsTx(r) THEN TxSendResponse(AloneTo(r), h[r].info)
                                      ELSE HostSendResponse(AloneTo(r), h[r].info)

StepIsLocal ==
    \A r, q \in ConcSlots :
        r # q => (SlotVars(r)' = SlotVars(r) \/ SlotVars(q)' = SlotVars(q))

C15_RequestsDoNotInterfere == []OutcomeIsOwn /\ [][StepIsLocal /\ env' = env]_vars

\* two requests have been served side by side: the transport failed for the
\* first, the second was resolved by lookup and sent
C15_Witness ==
    /\ Slots = ConcSlots
    /\ pc[1] = "done" /\ Called(1, "sendMail:fail") /\ EndedWithError(1, 500)
    /\ pc[2] = "done" /\ Called(2, "lookupRecipient") /\ Called(2, "sendMail:ok")
    /\ res[2][1].status = 200

\* ------------------------------------------------------------------------
\* C16: buildHtml selects the refund copy (banner 'Refund Processed', label
\* 'Refund Amount', the refund closing message) if and only if payment_title
\* contains 'refund', 'reversal' or 'reimbursement' in any letter case and at
\* any position; every other title gets the generic payment copy.
\* ------------------------------------------------------------------------
RefundCopy(doc) ==
    /\ SlotValue(doc, "bannerText") = "Refund Processed"
    /\ SlotValue(doc, "amountLabel") = "Refund Amount"
    /\ SlotValue(doc, "closing")
          = "Thank you for your understanding. We look forward to serving you again!"
PaymentCopy(doc) ==
    /\ SlotValue(doc, "bannerText") = "Transaction Successful"
    /\ SlotValue(doc, "amountLabel") = "Amount Paid"
    /\ SlotValue(doc, "closing") = "You're all set! Happy hosting."

C16_RefundCopyIffTriggerWord ==
    \A r \in Slots : \A c \in RenderCases :
        (IsTx(r) /\ h[r].html # << >> /\ Body(r).payment_title = TitleOf(c))
        => IF c.word \in TriggerWords
           THEN RefundCopy(h[r].html)
           ELSE PaymentCopy(h[r].html)

\* a title with the trigger word in mixed case in its middle has been rendered
C16_Witness ==
    \E r \in Slots :
        /\ IsTx(r)
        /\ Body(r).payment_title = Str("Booking ReVersal Issued")
        /\ h[r].html # << >>
        /\ RefundCopy(h[r].html)

\* ------------------------------------------------------------------------
\* C17: every user-supplied string interpolated into a message (title, name,
\* amount, receipt, booking id, extra message, listing name, rejection
\* reasons) is in the HTML body only in escaped form, with none of its
\* characters & < > " ' raw, and is in the plain-text body verbatim.
\* ------------------------------------------------------------------------
UserSlots ==
    {"paymentTitle", "recipientName", "amount", "mpesaReceipt", "bookingId", "extraMessage",
     "hostName", "listingName", "rejectionReason", "verificationRejectionReason"}

\* the string given for a slot, before any escaping
SlotInput(r, slot) ==
    CASE slot = "paymentTitle" -> ToStr(Body(r).payment_title)
      [] slot \in {"recipientName", "hostName"}
            -> ToStr(OrElse(h[r].finalRecipientName, Str("there")))
      [] slot = "amount" -> ToStr(Body(r).amount)
      [] slot = "mpesaReceipt" -> ToStr(Body(r).mpesa_receipt)
      [] slot = "bookingId" -> ToStr(Body(r).booking_id)
      [] slot = "extraMessage" -> ToStr(Body(r).extra_message)
      [] slot = "listingName" -> ToStr(Body(r).listing_name)
      [] slot = "rejectionReason" -> ToStr(Body(r).rejection_reason)
      [] slot = "verificationRejectionReason"
            -> ToStr(Body(r).verification_rejection_reason)

Entities ==
    { << "&amp;", "&" >>, << "&lt;", "<" >>, << "&gt;", ">" >>, << "&quot;", "\"" >>,
      << "&#039;", "'" >> }

StartsWith(s, p) == Len(p) <= Len(s) /\ SubSeq(s, 1, Len(p)) = p

\* no < > " ' at all, and & only as the first character of an entity
NoRawSpecial(s) ==
    \A i \in 1..Len(s) :
        /\ CharAt(s, i) \notin {"<", ">", "\"", "'"}
        /\ CharAt(s, i) = "&" => \E e \in Entities : StartsWith(SubSeq(s, i, Len(s)), e[1])

\* what a browser shows for s: each entity read back as its character
RECURSIVE Unescape(_)
Unescape(s) ==
    IF s = "" THEN ""
    ELSE IF CharAt(s, 1) = "&" /\ \E e \in Entities : StartsWith(s, e[1])
    THEN LET e == CHOOSE x \in Entities : StartsWith(s, x[1])
         IN  e[2] \o Unescape(SubSeq(s, Len(e[1]) + 1, Len(s)))
    ELSE CharAt(s, 1) \o Unescape(SubSeq(s, 2, Len(s)))

\* the envelope of request r is with sendMail, which has not settled yet
Sending(r) == pc[r] = "sendMail" /\ Len(sent[r]) = 1

C17_HtmlEscapedTextVerbatim ==
    \A r \in Slots :
        Sending(r)
        => LET html == sent[r][1].html
               text == sent[r][1].text
           IN  \A i \in 1..Len(html) :
                   html[i].slot \in UserSlots
                   => /\ NoRawSpecial(html[i].s)
                      /\ Unescape(html[i].s) = SlotInput(r, html[i].slot)
                      /\ \E j \in 1..Len(text) :
                            /\ text[j].slot = html[i].slot
                            /\ text[j].s = SlotInput(r, html[i].slot)

\* a host message whose listing name has apostrophes and whose rejection
\* reason has double quotes has been handed to sendMail
C17_Witness ==
    \E r \in Slots :
        /\ IsHost(r)
        /\ Sending(r)
        /\ Body(r).listing_name = Str("Sea 'View'")
        /\ Body(r).rejection_reason = Str("Blurry \"photos\"")
        /\ \E i \in 1..Len(sent[r][1].html) : sent[r][1].html[i].slot = "rejectionReason"
        /\ \E i \in 1..Len(sent[r][1].html) :
              /\ sent[r][1].html[i].slot = "listingName"
              /\ sent[r][1].html[i].s = "Sea &#039;View&#039;"

\* ------------------------------------------------------------------------
\* C18: for a valid transaction request that gives only recipient_id, and a
\* lookup answer {email: e, name: n} with e non-null and n non-empty, the
\* envelope handed to sendMail has to = e, subject = payment_title verbatim
\* and an HTML body that contains n and the stringified amount.
\* ------------------------------------------------------------------------
OnlyIdGiven(r) ==
    /\ IsTx(r)
    /\ TxFieldsValid(Body(r))
    /\ Body(r).email = Undef
    /\ Body(r).recipient_name = Undef
    /\ Truthy(Body(r).recipient_id)
    /\ lk[r].result.email # Null
    /\ Truthy(lk[r].result.name)

\* some segment of the document has x as a substring
DocContains(doc, x) == \E i \in 1..Len(doc) : includes(doc[i].s, x)

\* as claimed: the name and the amount are in the HTML as they are
C18_EnvelopeHasNameAndAmount ==
    \A r \in Slots :
        (OnlyIdGiven(r) /\ sent[r] # << >>)
        => /\ sent[r][1].to = lk[r].result.email
           /\ sent[r][1].subject = Body(r).payment_title
           /\ DocContains(sent[r][1].html, ToStr(lk[r].result.name))
           /\ DocContains(sent[r][1].html, ToStr(Body(r).amount))

\* amended: the name and the amount are in the HTML in escaped form
C18_EnvelopeHasEscapedNameAndAmount ==
    \A r \in Slots :
        (OnlyIdGiven(r) /\ sent[r] # << >>)
        => /\ sent[r][1].to = lk[r].result.email
           /\ sent[r][1].subject = Body(r).payment_title
           /\ \E i \in 1..Len(sent[r][1].html) :
                 /\ NoRawSpecial(sent[r][1].html[i].s)
                 /\ Unescape(sent[r][1].html[i].s) = ToStr(lk[r].result.name)
           /\ \E i \in 1..Len(sent[r][1].html) :
                 /\ NoRawSpecial(sent[r][1].html[i].s)
                 /\ Unescape(sent[r][1].html[i].s) = ToStr(Body(r).amount)

\* the envelope of such a request, resolved to a guest whose name has an
\* apostrophe, has been handed to sendMail
C18_Witness ==
    \E r \in Slots :
        /\ OnlyIdGiven(r)
        /\ sent[r] # << >>
        /\ lk[r].result = [email |-> Str("p@q.io"), name |-> Str("Gina O'Neil")]
        /\ Body(r).payment_title = Str("Rent Payment")
        /\ Body(r).amount = Str("KES 5000")

\* ------------------------------------------------------------------------
\* C19: composition is deterministic: two runs of a handler on the same
\* request with the same lookup answer give identical envelopes (from, to,
\* subject, text, html, attachments), whatever else differs, the time of the
\* call included; and composition makes no external call other than at most
\* one lookupRecipient call.
\* ------------------------------------------------------------------------
Count(seq, ev) == Cardinality({ i \in 1..Len(seq) : seq[i] = ev })

\* both activations served the same request with the same lookup answer and
\* both have handed their envelope to sendMail
SameRun(r, q) ==
    /\ r # q
    /\ req[r] = req[q]
    /\ lk[r].result = lk[q].result
    /\ sent[r] # << >>
    /\ sent[q] # << >>

\* from the request to the envelope nothing but lookupRecipient is called
OnlyLookupWhileComposing(r) ==
    /\ Count(trace[r], "lookupRecipient") <= 1
    /\ \A i \in 1..Len(trace[r]) :
          trace[r][i] \in {"createTransporter", "verify", "sendMail"}
          => \E j \in 1..(i - 1) : trace[r][j] \in {"buildHtml", "buildHostHtml"}

SansYear(doc) ==
    [i \in 1..Len(doc) |-> IF doc[i].slot = "year" THEN Val("year", "") ELSE doc[i]]

StoreQueries == {"query:profiles", "query:guest_profiles", "query:host_profiles"}

PrimaryDone(r) == Called(r, "profiles:row") \/ Called(r, "profiles:norow")

\* position of the first occurrence of ev in the log of request r, 0 if none
FirstAt(r, ev) ==
    IF Called(r, ev) THEN CHOOSE i \in 1..Len(trace[r]) :
                              /\ trace[r][i] = ev
                              /\ \A j \in 1..(i - 1) : trace[r][j] # ev
    ELSE 0

C20_SecondaryQueryOnlyForGuestOrHost ==
    \A r \in Slots :
        /\ Cardinality({ i \in 1..Len(trace[r]) : trace[r][i] \in StoreQueries }) <= 2
        /\ Count(trace[r], "query:profiles") <= 1
        /\ \A table \in {"guest_profiles", "host_profiles"} :
              Called(r, "query:" \o table)
              => /\ PrimaryDone(r)
                 /\ ~PrimaryFailed(r)
                 /\ \E ev \in {"profiles:row", "profiles:norow"} :
                       /\ Called(r, ev)
                       /\ FirstAt(r, ev) < FirstAt(r, "query:" \o table)
                 /\ Called(r, "profiles:row")
                 /\ lk[r].role = Str(IF table = "guest_profiles" THEN "guest" ELSE "host")
        /\ (PrimaryDone(r) /\ lk[r].role \notin {Str("guest"), Str("host")})
              => /\ ~SecondaryQueried(r)
                 /\ pc[r] \in {"lookup_return", "verify", "sendMail", "done"}
                 /\ lk[r].result = [email |-> lk[r].email, name |-> Null]

\* a profile with role admin has been found and the lookup has returned
C20_Witness ==
    \E r \in Slots :
        /\ Called(r, "profiles:row")
        /\ lk[r].role = Str("admin")
        /\ lk[r].result = [email |-> Str("p@q.io"), name |-> Null]
        /\ pc[r] = "lookup_return"

\* ------------------------------------------------------------------------
\* C21: for role host with a host row found, the resolved name is first_name
\* and last_name (each taken as empty when missing) joined by one space, with
\* the whitespace around the result removed: when exactly one part is empty
\* the name is the other part without leading or trailing space (first
\* 'Jane', last '' gives 'Jane'), and the name never starts or ends with
\* whitespace.
\* ------------------------------------------------------------------------
PartOf(v) == IF Truthy(v) THEN ToStr(v) ELSE ""

AllSpace(s) == \A i \in 1..Len(s) : IsSpace(CharAt(s, i))

\* s is `full` with nothing but whitespace taken off its two ends, and has
\* none left there
IsTrimOf(s, full) ==
    /\ s # "" => ~IsSpace(CharAt(s, 1)) /\ ~IsSpace(CharAt(s, Len(s)))
    /\ \E i \in 1..(Len(full) + 1) :
          /\ i + Len(s) - 1 <= Len(full)
          /\ SubSeq(full, i, i + Len(s) - 1) = s
          /\ AllSpace(SubSeq(full, 1, i - 1))
          /\ AllSpace(SubSeq(full, i + Len(s), Len(full)))

\* lookupRecipient is about to return what it made of the host row it found
HostRowFound(r) ==
    /\ pc[r] = "lookup_return"
    /\ lk[r].role = Str("host")
    /\ lk[r].host.present

C21_HostNameJoinedAndTrimmed ==
    \A r \in Slots :
        HostRowFound(r)
        => LET first == PartOf(lk[r].host.first_name)
               last == PartOf(lk[r].host.last_name)
               name == lk[r].result.name
           IN  /\ name.t = "string"
               /\ IsTrimOf(name.s, first \o " " \o last)
               /\ (first # "" /\ last = "") => IsTrimOf(name.s, first)
               /\ (first = "" /\ last # "") => IsTrimOf(name.s, last)
               /\ (first = "Jane" /\ last = "") => name = Str("Jane")
               /\ lk[r].result.email = lk[r].email

\* a host row with first name 'Jane' and an empty last name has been resolved
C21_Witness ==
    \E r \in Slots :
        /\ HostRowFound(r)
        /\ lk[r].host.first_name = Str("Jane")
        /\ lk[r].host.last_name = Str("")
        /\ lk[r].result.name = Str("Jane")

\* ------------------------------------------------------------------------
\* C22: every transaction message handed to sendMail has the same flavor in
\* its two bodies: when the HTML body carries the refund copy the plain-text
\* body speaks of a refund and not of a payment received, and when the HTML
\* body carries the payment copy the plain-text body speaks of a payment.
\* ------------------------------------------------------------------------
\* the fixed wording of the document, the interpolated values left out
Wording(doc) == { doc[i].s : i \in { j \in 1..Len(doc) : doc[j].slot = "lit" } }

PaymentWording(doc) == \E w \in Wording(doc) : includes(w, "Payment received")
RefundWording(doc) == \E w \in Wording(doc) : includes(toLowerCase(w), "refund")

C22_TextAndHtmlSameFlavor ==
    \A r \in Slots :
        (IsTx(r) /\ Sending(r))
        => LET html == sent[r][1].html
               text == sent[r][1].text
           IN  /\ RefundCopy(html) => RefundWording(text) /\ ~PaymentWording(text)
               /\ PaymentCopy(html) => PaymentWording(text) /\ ~RefundWording(text)

\* ------------------------------------------------------------------------
\* C23: a transaction message composed without mpesa_receipt has no M-Pesa
\* receipt row and no placeholder for it (such as 'Processing...'), in the
\* HTML body and in the plain-text body alike; with mpesa_receipt present the
\* labeled row is rendered with the receipt.
\* ------------------------------------------------------------------------
HasSlot(doc, slot) == \E i \in 1..Len(doc) : doc[i].slot = slot

\* the document shows a receipt line: its label, a value for it or a
\* placeholder
ReceiptRow(doc) ==
    \/ HasSlot(doc, "mpesaReceipt")
    \/ DocContains(doc, "M-Pesa Receipt")
    \/ DocContains(doc, "Processing...")

\* the labeled line with the receipt itself as value
ReceiptRowOf(doc, receipt) ==
    \E i \in 2..Len(doc) :
        /\ doc[i].slot = "mpesaReceipt"
        /\ doc[i].s = receipt
        /\ includes(doc[i - 1].s, "M-Pesa Receipt")

C23_ReceiptRowOnlyWhenPresent ==
    \A r \in Slots :
        (IsTx(r) /\ Sending(r))
        => LET html == sent[r][1].html
               text == sent[r][1].text
               receipt == Body(r).mpesa_receipt
           IN  IF Truthy(receipt)
               THEN /\ ReceiptRowOf(html, EscapeString(ToStr(receipt)))
                    /\ ReceiptRowOf(text, ToStr(receipt))
               ELSE ~ReceiptRow(html) /\ ~ReceiptRow(text)

\* ------------------------------------------------------------------------
\* C24: in both families, when the effective name is empty (the caller gave
\* none or an empty one, and the lookup was not run or returned a null or
\* empty name) the greeting of the HTML body and of the plain-text body is
\* 'Hi there', and the message goes on to sendMail: a request without a name
\* that ends without a send was refused by validation, had no recipient
\* email, or had a title the renderer cannot handle; the missing name is
\* never what ends it.
\* ------------------------------------------------------------------------
NameEmpty(r) ==
    /\ ~Truthy(GivenName(r))
    /\ ~Called(r, "lookupRecipient") \/ ~Truthy(lk[r].result.name)

\* the document greets with `name` right after 'Hi '
Greets(doc, slot, name) ==
    \E i \in 2..Len(doc) :
        /\ doc[i].slot = slot
        /\ doc[i].s = name
        /\ includes(doc[i - 1].s, "Hi ")

\* why a request can end without a send, the name playing no part
EndedForOtherCause(r) ==
    \/ EndedWithError(r, 400) /\ ~FieldsValid(r)
    \/ EndedWithError(r, 400) /\ ~Truthy(GivenEmail(r)) /\ ~Truthy(GivenId(r))
    \/ EndedWithError(r, 404) /\ ~Resolved(r)
    \/ EndedWithError(r, 500) /\ IsTx(r) /\ Body(r).payment_title.t # "string"

C24_EmptyNameGreetsThere ==
    \A r \in Slots :
        (Serving(r) /\ NameEmpty(r))
        => /\ h[r].html # << >>
                => /\ Greets(h[r].html, NameSlot(r), "there")
                   /\ Greets(h[r].text, NameSlot(r), "there")
                   /\ pc[r] \in {"verify", "sendMail", "done"}
                   /\ pc[r] # "verify" => Len(sent[r]) = 1
           /\ sent[r] # << >>
                => /\ Greets(sent[r][1].html, NameSlot(r), "there")
                   /\ Greets(sent[r][1].text, NameSlot(r), "there")
           /\ (pc[r] = "done" /\ sent[r] = << >>) => EndedForOtherCause(r)

\* a host request without a name, resolved to a host row without names, has
\* been sent
C24_Witness ==
    \E r \in Slots :
        /\ IsHost(r)
        /\ GivenName(r) = Undef
        /\ Called(r, "lookupRecipient")
        /\ lk[r].result.name = Str("")
        /\ Len(sent[r]) = 1
        /\ Greets(sent[r][1].html, "hostName", "there")
        /\ pc[r] = "done"
        /\ res[r][1].status = 200

\* ------------------------------------------------------------------------
\* C25: buildHostHtml gives each of the five email types its own banner
\* (submitted: Listing Submitted, published: Listing Published, rejected:
\* Listing Not Approved, verified: Host Verified, verification_rejected:
\* Verification Not Approved), renders the 'Next Steps' note block if and
\* only if the type is rejected or verification_rejected, and refers to the
\* listing name only for submitted, published and rejected.
\* ------------------------------------------------------------------------
BannerOf(emailType) ==
    CASE emailType = Str("submitted") -> "Listing Submitted"
      [] emailType = Str("published") -> "Listing Published"
      [] emailType = Str("rejected") -> "Listing Not Approved"
      [] emailType = Str("verified") -> "Host Verified"
      [] emailType = Str("verification_rejected") -> "Verification Not Approved"

RejectionTypes == {Str("rejected"), Str("verification_rejected")}

SlotCount(doc, slot) == Cardinality({ i \in 1..Len(doc) : doc[i].slot = slot })

C25_HostVariantPerType ==
    \A r \in Slots :
        (IsHost(r) /\ h[r].html # << >>)
        => LET doc == h[r].html
               emailType == Body(r).email_type
           IN  /\ emailType \in FiveTypes
               /\ SlotCount(doc, "bannerText") = 1
               /\ SlotValue(doc, "bannerText") = BannerOf(emailType)
               /\ DocContains(doc, "Next Steps") <=> emailType \in RejectionTypes
               /\ HasSlot(doc, "nextSteps") <=> emailType \in RejectionTypes
               /\ HasSlot(doc, "listingName") <=> emailType \in ListingTypes
               /\ (emailType \notin ListingTypes /\ Truthy(Body(r).listing_name))
                     => ~DocContains(doc, EscapeString(ToStr(Body(r).listing_name)))

\* a verification_rejected message for a request that also named a listing has
\* been rendered
C25_Witness ==
    \E r \in Slots :
        /\ IsHost(r)
        /\ h[r].html # << >>
        /\ Body(r).email_type = Str("verification_rejected")
        /\ Truthy(Body(r).listing_name)
        /\ SlotValue(h[r].html, "bannerText") = "Verification Not Approved"
        /\ DocContains(h[r].html, "Next Steps")

\* ------------------------------------------------------------------------
\* C26: every envelope handed to sendMail, in both families and for every
\* template variant, carries both inline assets (content ids mystay-icon and
\* checkmark-icon), and every content id the rendered HTML refers to is among
\* the attached content ids.
\* ------------------------------------------------------------------------
\* the content id written at position i of the markup s: what follows 'cid:'
\* up to the closing double quote
CidAt(s, i) ==
    LET from == i + 4
        upto == CHOOSE k \in from..(Len(s) + 1) :
                    /\ k = Len(s) + 1 \/ CharAt(s, k) = "\""
                    /\ \A j \in from..(k - 1) : CharAt(s, j) # "\""
    IN  SubSeq(s, from, upto - 1)

\* the content ids the template markup of the document refers to
CidRefs(doc) ==
    UNION { { CidAt(doc[j].s, i) :
                i \in { k \in 1..(Len(doc[j].s) - 3) : SubSeq(doc[j].s, k, k + 3) = "cid:" } } :
            j \in { k \in 1..Len(doc) : doc[k].slot = "lit" } }

AttachedCids(envelope) ==
    { envelope.attachments[i].cid : i \in 1..Len(envelope.attachments) }

C26_InlineAssetsAttached ==
    \A r \in Slots :
        sent[r] # << >>
        => /\ AttachedCids(sent[r][1]) = {"mystay-icon", "checkmark-icon"}
           /\ Len(sent[r][1].attachments) = 2
           /\ CidRefs(sent[r][1].html) \subseteq AttachedCids(sent[r][1])
           /\ "mystay-icon" \in CidRefs(sent[r][1].html)

\* the envelope of a rejected-listing message, whose HTML shows a glyph in
\* place of the checkmark image, has been handed to sendMail
C26_Witness ==
    \E r \in Slots :
        /\ IsHost(r)
        /\ Body(r).email_type = Str("rejected")
        /\ sent[r] # << >>
        /\ CidRefs(sent[r][1].html) = {"mystay-icon"}
        /\ AttachedCids(sent[r][1]) = {"mystay-icon", "checkmark-icon"}

\* ------------------------------------------------------------------------
\* C27: when something raises after validation and before the send (the
\* renderer on a payment_title that is truthy but not a string), the request
\* ends with exactly one server-error response and sendMail is never called
\* for it; the exception does not leave the handler.
\* ------------------------------------------------------------------------
\* a valid transaction request whose title the renderer cannot lower-case
UnrenderableTitle(r) ==
    /\ IsTx(r)
    /\ TxFieldsValid(Body(r))
    /\ Body(r).payment_title.t # "string"

\* the handler has got past validation and recipient resolution
PastResolution(r) ==
    \/ Truthy(GivenEmail(r)) /\ pc[r] # "start"
    \/ Called(r, "lookupRecipient:return") /\ Truthy(lk[r].result.email)

C27_RaiseBeforeSendIsServerError ==
    \A r \in Slots :
        UnrenderableTitle(r)
        => /\ sent[r] = << >> /\ h[r].html = << >> /\ h[r].mailOptions = << >>
           /\ \A ev \in {"buildHtml", "createTransporter", "verify", "sendMail"} :
                 ~Called(r, ev)
           /\ PastResolution(r) <=> Called(r, "buildHtml:throw")
           /\ Called(r, "buildHtml:throw")
                 => /\ pc[r] = "done"
                    /\ res[r] = << Response(500, FALSE, Str("Server error sending email"),
                                            Undef, Undef, Undef,
                                            Str("paymentTitle.toLowerCase is not a function")) >>
                    /\ Count(trace[r], "respond") = 1
                    /\ trace[r][Len(trace[r])] = "respond"
                    /\ trace[r][Len(trace[r]) - 1] = "buildHtml:throw"

\* a request with a numeric title, resolved by lookup, has been answered
C27_Witness ==
    \E r \in Slots :
        /\ UnrenderableTitle(r)
        /\ Called(r, "lookupRecipient:return")
        /\ Called(r, "buildHtml:throw")
        /\ pc[r] = "done"
        /\ EndedWithError(r, 500)

\* ------------------------------------------------------------------------
\* C28: sendMail is only ever called with a `to` that is neither null nor
\* empty and that is the caller's direct email or else the email returned by
\* the lookup of the same request; the `to` of a success response is the `to`
\* of the envelope that was sent.
\* ------------------------------------------------------------------------
C28_RecipientIsDirectOrLookedUp ==
    \A r \in Slots :
        /\ sent[r] # << >>
              => LET to == sent[r][1].to
                 IN  /\ to # Null /\ to # Undef /\ to # Str("")
                     /\ Truthy(to)
                     /\ IF Truthy(GivenEmail(r))
                        THEN to = GivenEmail(r) /\ ~Called(r, "lookupRecipient")
                        ELSE /\ Called(r, "lookupRecipient:return")
                             /\ lk[r].recipientId = Str(ToStr(GivenId(r)))
                             /\ to = lk[r].result.email
        /\ (pc[r] = "done" /\ res[r][1].status = 200)
              => /\ Len(sent[r]) = 1
                 /\ res[r][1].to = sent[r][1].to
        /\ Called(r, "sendMail") <=> sent[r] # << >>

\* a request resolved by a lookup that also found a name has been sent and
\* answered with the looked-up address
C28_Witness ==
    \E r \in Slots :
        /\ Serving(r)
        /\ ~Truthy(GivenEmail(r))
        /\ Truthy(lk[r].result.name)
        /\ Len(sent[r]) = 1
        /\ sent[r][1].to = Str("p@q.io")
        /\ pc[r] = "done"
        /\ res[r][1].status = 200
        /\ res[r][1].to = Str("p@q.io")

\* ------------------------------------------------------------------------
\* C29: the steps of one request happen in a fixed order: field validation
\* completes before any profile lookup starts, the lookup (if any) completes
\* before rendering and before the transporter is created, the connectivity
\* check completes, with success or failure, before sendMail starts, and a
\* request that called sendMail is answered only after sendMail completed.
\* ------------------------------------------------------------------------
\* every occurrence of a step of `later` in the log of r comes after some
\* step of `earlier`
Precedes(r, earlier, later) ==
    \A i \in 1..Len(trace[r]) :
        trace[r][i] \in later => \E j \in 1..(i - 1) : trace[r][j] \in earlier

RenderSteps == {"buildHtml", "buildHostHtml", "buildHtml:throw"}
LookupSteps ==
    {"lookupRecipient", "query:profiles", "query:guest_profiles", "query:host_profiles",
     "profiles:row", "profiles:norow", "profiles:error", "profiles:throw",
     "guest_profiles:row", "guest_profiles:norow", "guest_profiles:warn",
     "guest_profiles:throw", "host_profiles:row", "host_profiles:norow",
     "host_profiles:warn", "host_profiles:throw"}
VerifyOutcomes == {"verify:ok", "verify:fail"}
SendOutcomes == {"sendMail:ok", "sendMail:fail"}

\* no step of `steps` at or after the first occurrence of `ev`
NoneAfter(r, steps, ev) ==
    \A i \in 1..Len(trace[r]) :
        trace[r][i] \in steps => \A j \in 1..i : trace[r][j] # ev

C29_StepsInFixedOrder ==
    \A r \in Slots :
        /\ trace[r] # << >> => trace[r][1] = "validate"
        /\ Count(trace[r], "validate") <= 1
        /\ Precedes(r, {"validate"}, LookupSteps)
        /\ Called(r, "lookupRecipient")
              => /\ Precedes(r, {"lookupRecipient:return"}, RenderSteps \cup {"createTransporter"})
                 /\ NoneAfter(r, LookupSteps, "lookupRecipient:return")
        /\ Precedes(r, RenderSteps, {"createTransporter"})
        /\ Precedes(r, {"createTransporter"}, {"verify"})
        /\ Precedes(r, {"verify"}, VerifyOutcomes)
        /\ Precedes(r, VerifyOutcomes, {"sendMail"})
        /\ Precedes(r, {"sendMail"}, SendOutcomes)
        /\ Called(r, "sendMail") => Precedes(r, SendOutcomes, {"respond"})
        /\ \A i \in 1..Len(trace[r]) : trace[r][i] = "respond" => i = Len(trace[r])
        /\ pc[r] = "sendMail" => res[r] = << >>

\* a request has gone through every step: validation, lookup with two queries,
\* rendering, a failed connectivity check, sendMail and the response
C29_Witness ==
    \E r \in Slots :
        /\ Called(r, "validate")
        /\ Called(r, "query:host_profiles")
        /\ Called(r, "lookupRecipient:return")
        /\ Called(r, "verify:fail")
        /\ Called(r, "sendMail:ok")
        /\ Called(r, "respond")
        /\ pc[r] = "done"

\* ------------------------------------------------------------------------
\* C30: a direct email that is present but empty (the empty string) is
\* treated as absent: with recipient_id / host_id given the request goes to
\* the identifier lookup, and without it the request gets the 'provide either
\* email or id' validation error, with no lookup and no send.
\* ------------------------------------------------------------------------
EitherError(r) ==
    ErrorResponse(400, IF IsTx(r) THEN "Provide either email or recipient_id"
                       ELSE "Provide either host_email or host_id")

EmptyEmailGiven(r) == Serving(r) /\ FieldsValid(r) /\ GivenEmail(r) = Str("")

C30_EmptyEmailIsAbsent ==
    \A r \in Slots :
        EmptyEmailGiven(r)
        => IF Truthy(GivenId(r))
           THEN /\ pc[r] # "start"
                      => /\ Called(r, "lookupRecipient")
                         /\ lk[r].recipientId = Str(ToStr(GivenId(r)))
                /\ sent[r] # << >>
                      => /\ Called(r, "lookupRecipient:return")
                         /\ sent[r][1].to = lk[r].result.email
                         /\ sent[r][1].to # Str("")
                /\ pc[r] = "done" => res[r] # << EitherError(r) >>
           ELSE /\ NoEffect(r)
                /\ pc[r] \in {"start", "done"}
                /\ pc[r] = "done" => res[r] = << EitherError(r) >>

\* a host request with host_email '' and a host_id has been resolved by the
\* lookup and sent
C30_Witness ==
    \E r \in Slots :
        /\ IsHost(r)
        /\ EmptyEmailGiven(r)
        /\ Truthy(GivenId(r))
        /\ Called(r, "lookupRecipient")
        /\ Len(sent[r]) = 1
        /\ sent[r][1].to = Str("p@q.io")
        /\ pc[r] = "done"

====
